---- MODULE Spec2Model ----
(***************************************************************************)
(* A model of hypre's memory layer, src/utilities/memory.c: the allocation *)
(* router (hypre_MAlloc_core, hypre_Free_core and their public wrappers),  *)
(* the copy engine (hypre_Memcpy_core) and the execution policy resolver   *)
(* (hypre_GetExecPolicy1_core, hypre_GetExecPolicy2_core).                 *)
(*                                                                         *)
(* memory.c is one source for many builds.  The preprocessor symbols that  *)
(* select the code compiled into a function are fields of the record       *)
(* `build`, fixed in the initial state.  The accelerator build modelled is *)
(* the CUDA one (HYPRE_USING_GPU with HYPRE_USING_CUDA); the HIP and SYCL  *)
(* branches have the same shape with another vendor primitive.             *)
(*                                                                         *)
(* A call is one action.  `last` is an observer: a call made with          *)
(* rec = TRUE is recorded in it, with its arguments, its result, whether   *)
(* the process was terminated inside the call, and `trace`, the sequence   *)
(* of backend primitives, diagnostics and aborts it executed, in program   *)
(* order.  A run is followed until its first recorded call, so every call  *)
(* is observed in every state the calls before it can produce.             *)
(*                                                                         *)
(* Spec is the allocation router, SpecPolicy the policy resolver, SpecCopy *)
(* the copy engine over two buffers, SpecRoundTrip a copy out and back.    *)
(***************************************************************************)
EXTENDS Integers, Sequences, FiniteSets, TLC

VARIABLES build, handle, rm, heap, alive, last, rt

vars == <<build, handle, rm, heap, alive, last, rt>>

(***************************************************************************)
(* Bounds of the model.                                                    *)
(***************************************************************************)
MaxAddr == 1        \* non-null addresses the backends can hand out
MaxSize == 1        \* largest size passed to allocate, copy
MaxCount == 1       \* largest count and element size passed to hypre_CAlloc
SizeBits == 2       \* width of size_t in the model: arithmetic is mod 2^SizeBits

NULL == 0

Addrs == 1..MaxAddr
Pointers == {NULL} \cup Addrs
Sizes == 0..MaxSize
ByteVals == {0, 171}

RECURSIVE Pow2(_)
Pow2(n) == IF n = 0 THEN 1 ELSE 2 * Pow2(n - 1)

SizeMod == Pow2(SizeBits)

(***************************************************************************)
(* hypre_MemoryLocation, HYPRE_MemoryLocation and HYPRE_ExecutionPolicy.   *)
(* hypre_MEMORY_UNDEFINED stands for every value that is none of the four  *)
(* locations.                                                              *)
(***************************************************************************)
hypre_MEMORY_UNDEFINED == "hypre_MEMORY_UNDEFINED"
hypre_MEMORY_HOST == "hypre_MEMORY_HOST"
hypre_MEMORY_HOST_PINNED == "hypre_MEMORY_HOST_PINNED"
hypre_MEMORY_DEVICE == "hypre_MEMORY_DEVICE"
hypre_MEMORY_UNIFIED == "hypre_MEMORY_UNIFIED"

MemoryLocations ==
    {hypre_MEMORY_HOST, hypre_MEMORY_HOST_PINNED, hypre_MEMORY_DEVICE, hypre_MEMORY_UNIFIED}
LocationValues == MemoryLocations \cup {hypre_MEMORY_UNDEFINED}

HYPRE_MEMORY_UNDEFINED == "HYPRE_MEMORY_UNDEFINED"
HYPRE_MEMORY_HOST == "HYPRE_MEMORY_HOST"
HYPRE_MEMORY_DEVICE == "HYPRE_MEMORY_DEVICE"

ConceptualLocations == {HYPRE_MEMORY_HOST, HYPRE_MEMORY_DEVICE, HYPRE_MEMORY_UNDEFINED}

HYPRE_EXEC_UNDEFINED == "HYPRE_EXEC_UNDEFINED"
HYPRE_EXEC_HOST == "HYPRE_EXEC_HOST"
HYPRE_EXEC_DEVICE == "HYPRE_EXEC_DEVICE"

(***************************************************************************)
(* Build configurations.  Without HYPRE_USING_GPU there is no accelerator, *)
(* hence no unified-memory setting and no device, managed or pinned Umpire *)
(* resource.  The three accelerator-side Umpire options are switched       *)
(* together.                                                               *)
(***************************************************************************)
Builds ==
    { b \in [ HYPRE_DEBUG : BOOLEAN,
              HYPRE_USING_GPU : BOOLEAN,
              HYPRE_USING_UNIFIED_MEMORY : BOOLEAN,
              HYPRE_USING_UMPIRE_HOST : BOOLEAN,
              HYPRE_USING_UMPIRE_DEVICE : BOOLEAN,
              HYPRE_USING_UMPIRE_UM : BOOLEAN,
              HYPRE_USING_UMPIRE_PINNED : BOOLEAN ] :
        /\ b.HYPRE_USING_UMPIRE_UM = b.HYPRE_USING_UMPIRE_DEVICE
        /\ b.HYPRE_USING_UMPIRE_PINNED = b.HYPRE_USING_UMPIRE_DEVICE
        /\ ~b.HYPRE_USING_GPU =>
              /\ ~b.HYPRE_USING_UNIFIED_MEMORY
              /\ ~b.HYPRE_USING_UMPIRE_DEVICE }

(***************************************************************************)
(* The handle after hypre_HandleCreate and hypre_UmpireInit.               *)
(***************************************************************************)
DefaultPoolName ==
    [ l \in MemoryLocations |->
        CASE l = hypre_MEMORY_DEVICE -> "HYPRE_DEVICE_POOL"
          [] l = hypre_MEMORY_UNIFIED -> "HYPRE_UM_POOL"
          [] l = hypre_MEMORY_HOST -> "HYPRE_HOST_POOL"
          [] l = hypre_MEMORY_HOST_PINNED -> "HYPRE_PINNED_POOL" ]

hypre_UmpireInit(policy) ==
    [ default_exec_policy |-> policy,
      user_device_malloc |-> FALSE,
      user_device_mfree |-> FALSE,
      umpire_pool_name |-> DefaultPoolName,
      own_umpire_pool |-> [ l \in MemoryLocations |-> 0 ] ]

(***************************************************************************)
(* Memory.  heap[a] is the block at address a: its location (the one it    *)
(* was allocated at), its bytes, and the allocator that produced it.       *)
(***************************************************************************)
NoBlock == [ live |-> FALSE, loc |-> hypre_MEMORY_UNDEFINED, bytes |-> <<>>, via |-> "none" ]

Block(location, bytes, via) ==
    [ live |-> TRUE, loc |-> location, bytes |-> bytes, via |-> via ]

\* the block a pointer names, for the record of a call
BlockAt(h, ptr) == IF ptr = NULL THEN NoBlock ELSE h[ptr]

Fill(n, v) == [ i \in 1..n |-> v ]

FreeAddrs == { a \in DOMAIN heap : ~heap[a].live }

NoCall == [ op |-> "none", trace |-> <<>>, term |-> FALSE ]

Record(rec, call) == IF rec THEN call ELSE NoCall

\* the process runs and no call has been recorded yet
Running == alive /\ last.op = "none"

NoTrip == [ step |-> "off" ]

Has(trace, e) == \E i \in 1..Len(trace) : trace[i] = e

HasAny(trace, E) == \E i \in 1..Len(trace) : trace[i] \in E

(***************************************************************************)
(* Diagnostics and aborts.  hypre_assert lives in a header: a failed       *)
(* hypre_assert ends the process in debug builds and is compiled out       *)
(* otherwise (which is why the code follows hypre_assert(0) by             *)
(* hypre_MPI_Abort).  hypre_MPI_Abort ends the process.                    *)
(***************************************************************************)
hypre_assert(EX) ==
    IF ~EX /\ build.HYPRE_DEBUG
    THEN [ trace |-> <<"hypre_assert">>, term |-> TRUE ]
    ELSE [ trace |-> <<>>, term |-> FALSE ]

hypre_MPI_Abort == [ trace |-> <<"hypre_MPI_Abort">>, term |-> TRUE ]

hypre_OutOfMemory ==
    LET a == hypre_assert(FALSE)
    IN  [ trace |-> <<"hypre_OutOfMemory">> \o a.trace, term |-> a.term ]

hypre_WrongMemoryLocation ==
    LET a == hypre_assert(FALSE)
    IN  [ trace |-> <<"hypre_WrongMemoryLocation">> \o a.trace, term |-> a.term ]

(***************************************************************************)
(* hypre_GetPointerLocation: the backend's pointer attributes give the     *)
(* location the block was allocated at; without an accelerator every       *)
(* pointer is on the host.                                                 *)
(***************************************************************************)
\* (an operator with a parameter h, or reg, is given the heap, or the Umpire
\* registry, that the call finds: inside another call, the one left so far)
hypre_GetPointerLocation(h, ptr) ==
    IF build.HYPRE_USING_GPU THEN h[ptr].loc ELSE hypre_MEMORY_HOST

\* TRUE when the assert of hypre_CheckMemoryLocation fails and ends the process.
hypre_CheckMemoryLocation(h, ptr, location) ==
    IF build.HYPRE_DEBUG /\ build.HYPRE_USING_GPU
    THEN IF ptr = NULL THEN FALSE ELSE location # hypre_GetPointerLocation(h, ptr)
    ELSE FALSE

(***************************************************************************)
(* hypre_GetActualMemLocation (a header's): HYPRE_MEMORY_DEVICE is device  *)
(* or unified memory in an accelerator build and host memory otherwise.    *)
(***************************************************************************)
hypre_GetActualMemLocation(location) ==
    CASE location = HYPRE_MEMORY_HOST -> hypre_MEMORY_HOST
      [] location = HYPRE_MEMORY_DEVICE ->
            IF ~build.HYPRE_USING_GPU THEN hypre_MEMORY_HOST
            ELSE IF build.HYPRE_USING_UNIFIED_MEMORY THEN hypre_MEMORY_UNIFIED
            ELSE hypre_MEMORY_DEVICE
      [] OTHER -> hypre_MEMORY_UNDEFINED

(***************************************************************************)
(* Memset primitives: the first num bytes become (unsigned char) value.    *)
(* Without an accelerator hypre_DeviceMemset and hypre_UnifiedMemset have  *)
(* an empty body.                                                          *)
(***************************************************************************)
hypre_HostMemset(bytes, value, num) ==
    [ i \in 1..Len(bytes) |-> IF i <= num THEN value % 256 ELSE bytes[i] ]

hypre_DeviceMemset(bytes, value, num) ==
    IF build.HYPRE_USING_GPU
    THEN [ i \in 1..Len(bytes) |-> IF i <= num THEN value % 256 ELSE bytes[i] ]
    ELSE bytes

hypre_UnifiedMemset(bytes, value, num) ==
    IF build.HYPRE_USING_GPU
    THEN [ i \in 1..Len(bytes) |-> IF i <= num THEN value % 256 ELSE bytes[i] ]
    ELSE bytes

DeviceMemsetTrace == IF build.HYPRE_USING_GPU THEN <<"cudaMemset">> ELSE <<>>

\* hypre_UnifiedMemPrefetch of a block just obtained from the managed allocator.
hypre_UnifiedMemPrefetch(size, location) ==
    IF size = 0 THEN <<>>
    ELSE IF build.HYPRE_USING_GPU /\ location \in {hypre_MEMORY_DEVICE, hypre_MEMORY_HOST}
    THEN <<"cudaMemPrefetchAsync">>
    ELSE <<>>

(***************************************************************************)
(* Allocation.  resp is what the selected backend answers (NULL or a free  *)
(* address), g the byte found in memory that nobody has written, ub the    *)
(* outcome of undefined behaviour.  A result carries the pointer, the      *)
(* trace, whether the process ended, the block's bytes, the allocator, and *)
(* the own-pool flags and Umpire registry after the call.                  *)
(***************************************************************************)
UBOutcomes == {"fault", "no_effect"}

\* The backend fails, or hands out the lowest free address.
Responses(size) ==
    IF size = 0 THEN {NULL}
    ELSE {NULL} \cup { a \in FreeAddrs : \A b \in FreeAddrs : a <= b }

Garbage(size) == IF size = 0 THEN {0} ELSE ByteVals \ {0}

AllocResult(ptr, trace, term, bytes, via, own, reg) ==
    [ ptr |-> ptr, trace |-> trace, term |-> term, bytes |-> bytes, via |-> via,
      own |-> own, rm |-> reg ]

NoAlloc(trace, term) ==
    AllocResult(NULL, trace, term, <<>>, "none", handle.own_umpire_pool, rm)

\* hypre_umpire_pooled_allocate marking the pool as its own even when it found it
umpire_pooled_allocate_always_owned(location, resp) ==
    LET pool_name == handle.umpire_pool_name[location]
        found == pool_name \in rm
    IN  [ ptr |-> resp,
          trace |-> IF found
                    THEN <<"umpire_allocator_allocate">>
                    ELSE <<"umpire_make_allocator_pool", "umpire_allocator_allocate">>,
          via |-> pool_name,
          own |-> [ handle.own_umpire_pool EXCEPT ![location] = 1 ],
          rm |-> rm \cup {pool_name} ]

hypre_umpire_pooled_allocate(location, resp) ==
    LET pool_name == handle.umpire_pool_name[location]
        found == pool_name \in rm
    IN  [ ptr |-> resp,
          trace |-> IF found
                    THEN <<"umpire_allocator_allocate">>
                    ELSE <<"umpire_make_allocator_pool", "umpire_allocator_allocate">>,
          via |-> pool_name,
          own |-> IF found THEN handle.own_umpire_pool
                  ELSE [ handle.own_umpire_pool EXCEPT ![location] = 1 ],
          rm |-> rm \cup {pool_name} ]

Native(event, resp) ==
    [ ptr |-> resp, trace |-> <<event>>, via |-> "native",
      own |-> handle.own_umpire_pool, rm |-> rm ]

NoBackend ==
    [ ptr |-> NULL, trace |-> <<>>, via |-> "none",
      own |-> handle.own_umpire_pool, rm |-> rm ]

hypre_HostMalloc(size, zeroinit, resp, g, ub) ==
    IF build.HYPRE_USING_UMPIRE_HOST
    THEN LET p == hypre_umpire_pooled_allocate(hypre_MEMORY_HOST, resp)
         IN  IF zeroinit # 0
             THEN IF p.ptr = NULL
                  THEN \* memset(NULL, 0, size): undefined behaviour
                       AllocResult(NULL,
                                   p.trace \o <<"memset">>
                                      \o (IF ub = "fault" THEN <<"SIGSEGV">> ELSE <<>>),
                                   ub = "fault", <<>>, "none", p.own, p.rm)
                  ELSE AllocResult(p.ptr, p.trace \o <<"memset">>, FALSE,
                                   hypre_HostMemset(Fill(size, g), 0, size),
                                   p.via, p.own, p.rm)
             ELSE AllocResult(p.ptr, p.trace, FALSE, Fill(size, g), p.via, p.own, p.rm)
    ELSE IF zeroinit # 0
         THEN AllocResult(resp, <<"calloc">>, FALSE, Fill(size, 0), "native",
                          handle.own_umpire_pool, rm)
         ELSE AllocResult(resp, <<"malloc">>, FALSE, Fill(size, g), "native",
                          handle.own_umpire_pool, rm)

\* hypre_DeviceMalloc asking the pool before it looks for a user allocator
DeviceMalloc_pool_first(size, zeroinit, resp, g) ==
    LET a == IF build.HYPRE_USING_UMPIRE_DEVICE
             THEN hypre_umpire_pooled_allocate(hypre_MEMORY_DEVICE, resp)
             ELSE IF handle.user_device_malloc
             THEN [ ptr |-> resp, trace |-> <<"user_device_malloc">>, via |-> "user",
                    own |-> handle.own_umpire_pool, rm |-> rm ]
             ELSE IF build.HYPRE_USING_GPU
             THEN Native("cudaMalloc", resp)
             ELSE NoBackend
        fill == a.ptr # NULL /\ zeroinit # 0
    IN  AllocResult(a.ptr,
                    a.trace \o (IF fill THEN DeviceMemsetTrace ELSE <<>>),
                    FALSE,
                    IF fill THEN hypre_DeviceMemset(Fill(size, g), 0, size)
                    ELSE Fill(size, g),
                    a.via, a.own, a.rm)

hypre_DeviceMalloc(size, zeroinit, resp, g) ==
    LET a == IF handle.user_device_malloc
             THEN [ ptr |-> resp, trace |-> <<"user_device_malloc">>, via |-> "user",
                    own |-> handle.own_umpire_pool, rm |-> rm ]
             ELSE IF build.HYPRE_USING_UMPIRE_DEVICE
             THEN hypre_umpire_pooled_allocate(hypre_MEMORY_DEVICE, resp)
             ELSE IF build.HYPRE_USING_GPU
             THEN Native("cudaMalloc", resp)
             ELSE NoBackend
        fill == a.ptr # NULL /\ zeroinit # 0
    IN  AllocResult(a.ptr,
                    a.trace \o (IF fill THEN DeviceMemsetTrace ELSE <<>>),
                    FALSE,
                    IF fill THEN hypre_DeviceMemset(Fill(size, g), 0, size)
                    ELSE Fill(size, g),
                    a.via, a.own, a.rm)

hypre_UnifiedMalloc(size, zeroinit, resp, g) ==
    LET a == IF build.HYPRE_USING_UMPIRE_UM
             THEN hypre_umpire_pooled_allocate(hypre_MEMORY_UNIFIED, resp)
             ELSE IF build.HYPRE_USING_GPU
             THEN Native("cudaMallocManaged", resp)
             ELSE NoBackend
        fill == a.ptr # NULL /\ zeroinit # 0
    IN  AllocResult(a.ptr,
                    a.trace
                       \o (IF a.ptr # NULL
                           THEN hypre_UnifiedMemPrefetch(size, hypre_MEMORY_DEVICE)
                           ELSE <<>>)
                       \o (IF fill THEN DeviceMemsetTrace ELSE <<>>),
                    FALSE,
                    IF fill THEN hypre_UnifiedMemset(Fill(size, g), 0, size)
                    ELSE Fill(size, g),
                    a.via, a.own, a.rm)

hypre_HostPinnedMalloc(size, zeroinit, resp, g) ==
    LET a == IF build.HYPRE_USING_UMPIRE_PINNED
             THEN hypre_umpire_pooled_allocate(hypre_MEMORY_HOST_PINNED, resp)
             ELSE IF build.HYPRE_USING_GPU
             THEN Native("cudaMallocHost", resp)
             ELSE NoBackend
        fill == a.ptr # NULL /\ zeroinit # 0
    IN  AllocResult(a.ptr,
                    a.trace \o (IF fill THEN <<"memset">> ELSE <<>>),
                    FALSE,
                    IF fill THEN hypre_HostMemset(Fill(size, g), 0, size)
                    ELSE Fill(size, g),
                    a.via, a.own, a.rm)

\* the switch on the location and the test of its result
MAlloc_switch(size, zeroinit, location, resp, g, ub) ==
      LET w == hypre_WrongMemoryLocation
          m == CASE location = hypre_MEMORY_HOST ->
                      hypre_HostMalloc(size, zeroinit, resp, g, ub)
                 [] location = hypre_MEMORY_DEVICE ->
                      hypre_DeviceMalloc(size, zeroinit, resp, g)
                 [] location = hypre_MEMORY_UNIFIED ->
                      hypre_UnifiedMalloc(size, zeroinit, resp, g)
                 [] location = hypre_MEMORY_HOST_PINNED ->
                      hypre_HostPinnedMalloc(size, zeroinit, resp, g)
                 [] OTHER -> NoAlloc(w.trace, w.term)
          oom == hypre_OutOfMemory
      IN  IF m.term THEN m
          ELSE IF m.ptr = NULL
          THEN AllocResult(NULL,
                           m.trace \o oom.trace
                              \o (IF oom.term THEN <<>> ELSE hypre_MPI_Abort.trace),
                           TRUE, <<>>, "none", m.own, m.rm)
          ELSE m

\* hypre_MAlloc_core without its test of the size
MAlloc_core_any_size(size, zeroinit, location, resp, g, ub) ==
    MAlloc_switch(size, zeroinit, location, resp, g, ub)

hypre_MAlloc_core(size, zeroinit, location, resp, g, ub) ==
    IF size = 0
    THEN NoAlloc(<<>>, FALSE)
    ELSE MAlloc_switch(size, zeroinit, location, resp, g, ub)

\* _hypre_MAlloc(size, location), and hypre_MAlloc_core with either zero-fill setting
MAllocCall(size, zeroinit, location, rec) ==
    /\ Running
    /\ \E resp \in Responses(size), g \in Garbage(size), ub \in UBOutcomes :
         \E r \in { hypre_MAlloc_core(size, zeroinit, location, resp, g, ub) } :
             /\ handle' = [ handle EXCEPT !.own_umpire_pool = r.own ]
             /\ rm' = r.rm
             /\ heap' = IF r.ptr # NULL
                        THEN [ heap EXCEPT ![r.ptr] = Block(location, r.bytes, r.via) ]
                        ELSE heap
             /\ alive' = ~r.term
             /\ last' = Record(rec,
                          [ op |-> "MAlloc", size |-> size, zeroinit |-> zeroinit,
                            location |-> location, resp |-> resp, ret |-> r.ptr,
                            via |-> r.via, trace |-> r.trace, term |-> r.term ])
    /\ UNCHANGED build

MAlloc(size, zeroinit, location, rec) ==
    MAllocCall(size, zeroinit, location, rec) /\ UNCHANGED rt

\* the product of two size_t values, not reduced to the width of size_t
Product_unbounded(count, elt_size) == count * elt_size

\* count * elt_size in size_t
Product(count, elt_size) == (count * elt_size) % SizeMod

\* hypre_CAlloc(count, elt_size, location): the product is taken in size_t
hypre_CAlloc(count, elt_size, location, rec) ==
    /\ Running
    /\ \E resp \in Responses(Product(count, elt_size)),
          g \in Garbage(Product(count, elt_size)), ub \in UBOutcomes :
         \E size \in { Product(count, elt_size) },
            actual \in { hypre_GetActualMemLocation(location) } :
         \E r \in { hypre_MAlloc_core(size, 1, actual, resp, g, ub) } :
             /\ handle' = [ handle EXCEPT !.own_umpire_pool = r.own ]
             /\ rm' = r.rm
             /\ heap' = IF r.ptr # NULL
                        THEN [ heap EXCEPT ![r.ptr] = Block(actual, r.bytes, r.via) ]
                        ELSE heap
             /\ alive' = ~r.term
             /\ last' = Record(rec,
                          [ op |-> "CAlloc", count |-> count, elt_size |-> elt_size,
                            size |-> size, zeroinit |-> 1,
                            location |-> actual, resp |-> resp, ret |-> r.ptr,
                            via |-> r.via, trace |-> r.trace, term |-> r.term ])
    /\ UNCHANGED <<build, rt>>

(***************************************************************************)
(* Free.  A result carries the trace, whether the process ended, and the   *)
(* deallocator the pointer was handed to ("none" when no primitive ran).   *)
(***************************************************************************)
FreeResult(trace, term, via) == [ trace |-> trace, term |-> term, via |-> via ]

hypre_umpire_pooled_free(reg, location) ==
    LET pool_name == handle.umpire_pool_name[location]
        a == hypre_assert(pool_name \in reg)
    IN  IF a.term THEN FreeResult(a.trace, TRUE, "none")
        ELSE FreeResult(<<"umpire_allocator_deallocate">>, FALSE, pool_name)

hypre_HostFree(reg) ==
    IF build.HYPRE_USING_UMPIRE_HOST
    THEN hypre_umpire_pooled_free(reg, hypre_MEMORY_HOST)
    ELSE FreeResult(<<"free">>, FALSE, "native")

hypre_DeviceFree(reg) ==
    IF handle.user_device_mfree
    THEN FreeResult(<<"user_device_mfree">>, FALSE, "user")
    ELSE IF build.HYPRE_USING_UMPIRE_DEVICE
    THEN hypre_umpire_pooled_free(reg, hypre_MEMORY_DEVICE)
    ELSE IF build.HYPRE_USING_GPU
    THEN FreeResult(<<"cudaFree">>, FALSE, "native")
    ELSE FreeResult(<<>>, FALSE, "none")

hypre_UnifiedFree(reg) ==
    IF build.HYPRE_USING_UMPIRE_UM
    THEN hypre_umpire_pooled_free(reg, hypre_MEMORY_UNIFIED)
    ELSE IF build.HYPRE_USING_GPU
    THEN FreeResult(<<"cudaFree">>, FALSE, "native")
    ELSE FreeResult(<<>>, FALSE, "none")

hypre_HostPinnedFree(reg) ==
    IF build.HYPRE_USING_UMPIRE_PINNED
    THEN hypre_umpire_pooled_free(reg, hypre_MEMORY_HOST_PINNED)
    ELSE IF build.HYPRE_USING_GPU
    THEN FreeResult(<<"cudaFreeHost">>, FALSE, "native")
    ELSE FreeResult(<<>>, FALSE, "none")

\* the location check and the switch on the location
Free_switch(h, reg, ptr, location) ==
    IF hypre_CheckMemoryLocation(h, ptr, location)
    THEN FreeResult(<<"hypre_CheckMemoryLocation", "assert">>, TRUE, "none")
    ELSE LET w == hypre_WrongMemoryLocation
         IN  CASE location = hypre_MEMORY_HOST -> hypre_HostFree(reg)
               [] location = hypre_MEMORY_DEVICE -> hypre_DeviceFree(reg)
               [] location = hypre_MEMORY_UNIFIED -> hypre_UnifiedFree(reg)
               [] location = hypre_MEMORY_HOST_PINNED -> hypre_HostPinnedFree(reg)
               [] OTHER -> FreeResult(w.trace, w.term, "none")

\* hypre_Free_core without its test of the pointer
Free_core_any_ptr(h, reg, ptr, location) == Free_switch(h, reg, ptr, location)

hypre_Free_core(h, reg, ptr, location) ==
    IF ptr = NULL
    THEN FreeResult(<<>>, FALSE, "none")
    ELSE Free_switch(h, reg, ptr, location)

\* _hypre_Free(ptr, location): ptr is NULL or a block the caller holds
Free(ptr, location, rec) ==
    /\ Running
    /\ ptr # NULL => heap[ptr].live
    /\ \E r \in { hypre_Free_core(heap, rm, ptr, location) } :
           /\ heap' = IF ptr # NULL /\ r.via # "none"
                      THEN [ heap EXCEPT ![ptr] = NoBlock ]
                      ELSE heap
           /\ alive' = ~r.term
           /\ last' = Record(rec,
                        [ op |-> "Free", ptr |-> ptr, location |-> location,
                          old |-> BlockAt(heap, ptr),
                          via |-> r.via, trace |-> r.trace, term |-> r.term ])
    /\ UNCHANGED <<build, handle, rm, rt>>

(***************************************************************************)
(* Configuration held in the handle: the optional user allocator for       *)
(* device memory (an accelerator build's) and the default execution policy.*)
(***************************************************************************)
hypre_SetUserDeviceMalloc(registered) ==
    /\ Running
    /\ build.HYPRE_USING_GPU
    /\ handle' = [ handle EXCEPT !.user_device_malloc = registered ]
    /\ UNCHANGED <<build, rm, heap, alive, last, rt>>

hypre_SetUserDeviceMfree(registered) ==
    /\ Running
    /\ build.HYPRE_USING_GPU
    /\ handle' = [ handle EXCEPT !.user_device_mfree = registered ]
    /\ UNCHANGED <<build, rm, heap, alive, last, rt>>

HYPRE_SetExecutionPolicy(exec_policy) ==
    /\ Running
    /\ handle' = [ handle EXCEPT !.default_exec_policy = exec_policy ]
    /\ UNCHANGED <<build, rm, heap, alive, last, rt>>

(***************************************************************************)
(* The allocation router: a build with or without accelerator, debugging  *)
(* and a host pool; an empty heap, no Umpire pool yet.                     *)
(***************************************************************************)
RouterBuilds ==
    { b \in Builds : ~b.HYPRE_USING_UMPIRE_DEVICE /\ ~b.HYPRE_USING_UNIFIED_MEMORY }

Init ==
    /\ build \in RouterBuilds
    /\ handle = hypre_UmpireInit(HYPRE_EXEC_DEVICE)
    /\ rm = {}
    /\ heap = [ a \in Addrs |-> NoBlock ]
    /\ alive = TRUE
    /\ last = NoCall
    /\ rt = NoTrip

\* Running is tested before the arguments of a call are drawn
Next ==
    \/ /\ Running
       /\ \E size \in Sizes, zeroinit \in {0, 1}, location \in LocationValues,
             rec \in BOOLEAN :
             MAlloc(size, zeroinit, location, rec)
    \/ /\ Running
       /\ \E count \in 0..MaxCount, elt_size \in 0..MaxCount,
             location \in ConceptualLocations, rec \in BOOLEAN :
             hypre_CAlloc(count, elt_size, location, rec)
    \/ /\ Running
       /\ \E ptr \in Pointers, location \in LocationValues, rec \in BOOLEAN :
             Free(ptr, location, rec)
    \/ \E registered \in BOOLEAN : hypre_SetUserDeviceMalloc(registered)
    \/ \E registered \in BOOLEAN : hypre_SetUserDeviceMfree(registered)

Spec == Init /\ [][Next]_vars

(***************************************************************************)
(* Properties of the allocation router, over the recorded call.            *)
(***************************************************************************)
AllocCalls == {"MAlloc", "CAlloc"}

AllocatorEvents ==
    {"malloc", "calloc", "cudaMalloc", "cudaMallocManaged", "cudaMallocHost",
     "user_device_malloc", "umpire_make_allocator_pool", "umpire_allocator_allocate",
     "memset", "cudaMemset", "cudaMemPrefetchAsync"}

ErrorEvents ==
    {"hypre_OutOfMemory", "hypre_WrongMemoryLocation", "hypre_assert",
     "hypre_MPI_Abort", "hypre_CheckMemoryLocation", "assert", "SIGSEGV"}

\* C1: an allocate request of size 0 (hypre_MAlloc_core with either zero-fill
\* setting, hypre_CAlloc when count * elt_size is 0 in size_t), at any location
\* value, returns NULL, calls no allocator, callback or pool, raises neither the
\* out-of-memory nor the wrong-location condition, and changes no state.
C1_SizeZeroReturnsNull ==
    [][ (last'.op \in AllocCalls /\ last'.size = 0)
        => /\ last'.ret = NULL
           /\ ~HasAny(last'.trace, AllocatorEvents \cup ErrorEvents)
           /\ last'.trace = <<>>
           /\ ~last'.term /\ alive'
           /\ UNCHANGED <<build, handle, rm, heap>> ]_vars

\* a size-0 request at a value that is none of the four locations, zero fill asked
C1_Witness ==
    /\ last.op = "MAlloc" /\ last.size = 0 /\ last.zeroinit = 1
    /\ last.location = hypre_MEMORY_UNDEFINED
    /\ last.ret = NULL /\ alive

\* C2: free(NULL, L) at any location value runs no location check, no backend
\* free, no user callback and no pool deallocation, raises no error, and leaves
\* the heap, the handle and the Umpire registry as they were, in every state
\* the calls before it (free(NULL, L) among them) can produce.
C2_FreeNullNoOp ==
    [][ (last'.op = "Free" /\ last'.ptr = NULL)
        => /\ last'.trace = <<>>
           /\ last'.via = "none"
           /\ ~last'.term /\ alive'
           /\ UNCHANGED <<build, handle, rm, heap>> ]_vars

\* free(NULL, device) while a block is held and a user free callback is registered
C2_Witness ==
    /\ last.op = "Free" /\ last.ptr = NULL /\ last.location = hypre_MEMORY_DEVICE
    /\ handle.user_device_mfree
    /\ \E a \in Addrs : heap[a].live
    /\ alive

\* C3 as stated: an allocate call of size > 0 at one of the four locations
\* whose backend yields NULL reports the out-of-memory diagnostic and ends the
\* process, and no such call returns NULL.
C3_NullBackendIsOutOfMemory ==
    (last.op \in AllocCalls /\ last.size > 0 /\ last.location \in MemoryLocations)
    => /\ last.resp = NULL => (Has(last.trace, "hypre_OutOfMemory") /\ last.term)
       /\ ~last.term => last.ret # NULL

\* the zero fill of a NULL pool result faults before the result is tested
C3_FaultBeforeDiagnostic ==
    /\ last.op \in AllocCalls /\ last.size > 0 /\ last.zeroinit = 1
    /\ build.HYPRE_USING_UMPIRE_HOST
    /\ last.location = hypre_MEMORY_HOST /\ last.resp = NULL
    /\ Has(last.trace, "SIGSEGV")
    /\ ~Has(last.trace, "hypre_OutOfMemory")

(***************************************************************************)
(* Execution policy.  A result carries exec, the value held when the       *)
(* closing hypre_assert is reached, the trace, and whether the process     *)
(* ended in the call; the call returns exec when it did not.               *)
(***************************************************************************)
PolicyResult(exec, trace, term) == [ exec |-> exec, trace |-> trace, term |-> term ]

\* hypre_HandleDefaultExecPolicy is read in accelerator builds only
DefaultExecPolicyOr(exec) ==
    IF build.HYPRE_USING_GPU THEN handle.default_exec_policy ELSE exec

\* hypre_GetExecPolicy1_core with the unified case answered as the device case
GetExecPolicy1_core_unified_is_device(location) ==
    IF location \in MemoryLocations
    THEN PolicyResult(IF location \in {hypre_MEMORY_HOST, hypre_MEMORY_HOST_PINNED}
                      THEN HYPRE_EXEC_HOST ELSE HYPRE_EXEC_DEVICE, <<>>, FALSE)
    ELSE PolicyResult(HYPRE_EXEC_UNDEFINED, <<"hypre_WrongMemoryLocation">>,
                      build.HYPRE_DEBUG)

hypre_GetExecPolicy1_core(location) ==
    LET exec == CASE location \in {hypre_MEMORY_HOST, hypre_MEMORY_HOST_PINNED} ->
                        HYPRE_EXEC_HOST
                  [] location = hypre_MEMORY_DEVICE -> HYPRE_EXEC_DEVICE
                  [] location = hypre_MEMORY_UNIFIED ->
                        DefaultExecPolicyOr(HYPRE_EXEC_UNDEFINED)
                  [] OTHER -> HYPRE_EXEC_UNDEFINED
        w == IF location \in MemoryLocations
             THEN [ trace |-> <<>>, term |-> FALSE ]
             ELSE hypre_WrongMemoryLocation
        a == hypre_assert(exec # HYPRE_EXEC_UNDEFINED)
    IN  IF w.term THEN PolicyResult(exec, w.trace, TRUE)
        ELSE PolicyResult(exec, w.trace \o a.trace, a.term)

\* hypre_GetExecPolicy2_core after its two tests of hypre_MEMORY_HOST_PINNED
GetExecPolicy2_ladder(l1, l2) ==
    LET e0 == HYPRE_EXEC_UNDEFINED
        \* no policy for these combinations
        e1 == IF \/ l1 = hypre_MEMORY_HOST /\ l2 = hypre_MEMORY_DEVICE
                 \/ l2 = hypre_MEMORY_HOST /\ l1 = hypre_MEMORY_DEVICE
              THEN HYPRE_EXEC_UNDEFINED ELSE e0
        \* this should never happen
        e2 == IF \/ l1 = hypre_MEMORY_UNIFIED /\ l2 = hypre_MEMORY_DEVICE
                 \/ l2 = hypre_MEMORY_UNIFIED /\ l1 = hypre_MEMORY_DEVICE
              THEN HYPRE_EXEC_UNDEFINED ELSE e1
        e3 == IF l1 = hypre_MEMORY_UNIFIED /\ l2 = hypre_MEMORY_UNIFIED
              THEN DefaultExecPolicyOr(e2) ELSE e2
        e4 == IF l1 = hypre_MEMORY_HOST \/ l2 = hypre_MEMORY_HOST
              THEN HYPRE_EXEC_HOST ELSE e3
        e5 == IF l1 = hypre_MEMORY_DEVICE \/ l2 = hypre_MEMORY_DEVICE
              THEN HYPRE_EXEC_DEVICE ELSE e4
        a == hypre_assert(e5 # HYPRE_EXEC_UNDEFINED)
    IN  PolicyResult(e5, a.trace, a.term)

\* hypre_GetExecPolicy2_core without its two tests of hypre_MEMORY_HOST_PINNED
GetExecPolicy2_core_pinned_as_is(location1, location2) ==
    GetExecPolicy2_ladder(location1, location2)

hypre_GetExecPolicy2_core(location1, location2) ==
    GetExecPolicy2_ladder(
        IF location1 = hypre_MEMORY_HOST_PINNED THEN hypre_MEMORY_HOST ELSE location1,
        IF location2 = hypre_MEMORY_HOST_PINNED THEN hypre_MEMORY_HOST ELSE location2)

NoReturn == "no return"

GetExecPolicy1(location, rec) ==
    /\ Running
    /\ \E r \in { hypre_GetExecPolicy1_core(location) } :
           /\ alive' = ~r.term
           /\ last' = Record(rec,
                        [ op |-> "GetExecPolicy1", location |-> location,
                          exec |-> r.exec,
                          ret |-> IF r.term THEN NoReturn ELSE r.exec,
                          trace |-> r.trace, term |-> r.term ])
    /\ UNCHANGED <<build, handle, rm, heap, rt>>

GetExecPolicy2(location1, location2, rec) ==
    /\ Running
    /\ \E r \in { hypre_GetExecPolicy2_core(location1, location2) } :
           /\ alive' = ~r.term
           /\ last' = Record(rec,
                        [ op |-> "GetExecPolicy2",
                          location1 |-> location1, location2 |-> location2,
                          exec |-> r.exec,
                          ret |-> IF r.term THEN NoReturn ELSE r.exec,
                          trace |-> r.trace, term |-> r.term ])
    /\ UNCHANGED <<build, handle, rm, heap, rt>>

(***************************************************************************)
(* SpecPolicy: the resolver under every debug and accelerator setting      *)
(* (PlainBuilds: no Umpire, no unified-memory default).                    *)
(* The handle starts with the device policy in an accelerator build and    *)
(* the host policy otherwise; HYPRE_SetExecutionPolicy changes it.         *)
(***************************************************************************)
PlainBuilds ==
    { b \in Builds : /\ ~b.HYPRE_USING_UMPIRE_HOST /\ ~b.HYPRE_USING_UMPIRE_DEVICE
                     /\ ~b.HYPRE_USING_UNIFIED_MEMORY }

ExecPolicies == {HYPRE_EXEC_HOST, HYPRE_EXEC_DEVICE}

InitPolicy ==
    /\ build \in PlainBuilds
    /\ handle = hypre_UmpireInit(IF build.HYPRE_USING_GPU
                                 THEN HYPRE_EXEC_DEVICE ELSE HYPRE_EXEC_HOST)
    /\ rm = {}
    /\ heap = [ a \in Addrs |-> NoBlock ]
    /\ alive = TRUE
    /\ last = NoCall
    /\ rt = NoTrip

NextPolicy ==
    \/ \E exec_policy \in ExecPolicies : HYPRE_SetExecutionPolicy(exec_policy)
    \/ \E location \in LocationValues, rec \in BOOLEAN : GetExecPolicy1(location, rec)
    \/ /\ Running
       /\ \E location1 \in LocationValues, location2 \in LocationValues,
             rec \in BOOLEAN :
             GetExecPolicy2(location1, location2, rec)

SpecPolicy == InitPolicy /\ [][NextPolicy]_vars

HostSide == {hypre_MEMORY_HOST, hypre_MEMORY_HOST_PINNED}

\* C8 as stated: hypre_GetExecPolicy2_core on a host (or pinned host) location
\* and the device location, in either order, resolves to HYPRE_EXEC_UNDEFINED
\* at the closing assertion and returns neither the host nor the device policy.
C8_HostDeviceUndefined ==
    ( /\ last.op = "GetExecPolicy2"
      /\ \/ last.location1 \in HostSide /\ last.location2 = hypre_MEMORY_DEVICE
         \/ last.location2 \in HostSide /\ last.location1 = hypre_MEMORY_DEVICE )
    => /\ last.exec = HYPRE_EXEC_UNDEFINED
       /\ last.ret \notin {HYPRE_EXEC_HOST, HYPRE_EXEC_DEVICE}

\* the pair (host, device) returns the device policy to the caller
C8_HostDeviceReturnsDevice ==
    /\ last.op = "GetExecPolicy2"
    /\ last.location1 = hypre_MEMORY_HOST /\ last.location2 = hypre_MEMORY_DEVICE
    /\ last.ret = HYPRE_EXEC_DEVICE /\ last.trace = <<>> /\ alive

\* C9 as stated: hypre_GetExecPolicy2_core on the unified and the device
\* location, in either order and whatever the default execution policy,
\* resolves to HYPRE_EXEC_UNDEFINED and returns neither the host nor the
\* device policy.
C9_UnifiedDeviceUndefined ==
    ( /\ last.op = "GetExecPolicy2"
      /\ \/ last.location1 = hypre_MEMORY_UNIFIED /\ last.location2 = hypre_MEMORY_DEVICE
         \/ last.location2 = hypre_MEMORY_UNIFIED /\ last.location1 = hypre_MEMORY_DEVICE )
    => /\ last.exec = HYPRE_EXEC_UNDEFINED
       /\ last.ret \notin {HYPRE_EXEC_HOST, HYPRE_EXEC_DEVICE}

\* the pair (device, unified) returns the device policy while the default is host
C9_UnifiedDeviceReturnsDevice ==
    /\ last.op = "GetExecPolicy2"
    /\ last.location1 = hypre_MEMORY_DEVICE /\ last.location2 = hypre_MEMORY_UNIFIED
    /\ handle.default_exec_policy = HYPRE_EXEC_HOST
    /\ last.ret = HYPRE_EXEC_DEVICE /\ last.trace = <<>> /\ alive

LocalCopy == "memcpy"
HostToDevice == "cudaMemcpyHostToDevice"
DeviceToHost == "cudaMemcpyDeviceToHost"
DeviceToDevice == "cudaMemcpyDeviceToDevice"
NoBranch == "none"
WrongLocation == "hypre_WrongMemoryLocation"

TransferClasses == {LocalCopy, HostToDevice, DeviceToHost, DeviceToDevice}

CopyResult(branch, trace, term, bytes) ==
    [ branch |-> branch, trace |-> trace, term |-> term, bytes |-> bytes ]

\* CopyBytes stopping one byte short
CopyBytes_one_short(dst_bytes, src_bytes, size) ==
    [ i \in 1..Len(dst_bytes) |-> IF i < size THEN src_bytes[i] ELSE dst_bytes[i] ]

\* the first size bytes of dst_bytes become those of src_bytes
CopyBytes(dst_bytes, src_bytes, size) ==
    [ i \in 1..Len(dst_bytes) |-> IF i <= size THEN src_bytes[i] ELSE dst_bytes[i] ]

\* where the host, and where the device, can address memory of a location
HostAccessible(location) ==
    location \in {hypre_MEMORY_HOST, hypre_MEMORY_HOST_PINNED, hypre_MEMORY_UNIFIED}

DeviceAccessible(location) ==
    location \in {hypre_MEMORY_DEVICE, hypre_MEMORY_UNIFIED}

\* the pointers are what the primitive of this class takes them for
TransferDefined(h, class, dst, src) ==
    CASE class = LocalCopy ->
            HostAccessible(h[dst].loc) /\ HostAccessible(h[src].loc)
      [] class = HostToDevice ->
            DeviceAccessible(h[dst].loc) /\ HostAccessible(h[src].loc)
      [] class = DeviceToHost ->
            HostAccessible(h[dst].loc) /\ DeviceAccessible(h[src].loc)
      [] class = DeviceToDevice ->
            DeviceAccessible(h[dst].loc) /\ DeviceAccessible(h[src].loc)

\* memcpy, or cudaMemcpy of the class's kind under HYPRE_CUDA_CALL; a pointer
\* the primitive cannot take is undefined behaviour
Transfer(h, class, dst, src, size, ub) ==
    IF class # LocalCopy /\ ~build.HYPRE_USING_GPU
    THEN CopyResult(class, <<>>, FALSE, h[dst].bytes)
    ELSE IF TransferDefined(h, class, dst, src)
    THEN CopyResult(class, <<class>>, FALSE,
                    CopyBytes(h[dst].bytes, h[src].bytes, size))
    ELSE IF ub = "fault"
    THEN CopyResult(class,
                    <<class, IF class = LocalCopy THEN "SIGSEGV" ELSE "HYPRE_CUDA_CALL">>,
                    TRUE, h[dst].bytes)
    ELSE CopyResult(class, <<class>>, FALSE, h[dst].bytes)

\* the ladder with its second test, the one on the unified location, left out
Memcpy_branch_without_unified_pairs(loc_dst, loc_src) ==
    IF /\ loc_dst # hypre_MEMORY_DEVICE /\ loc_dst # hypre_MEMORY_UNIFIED
       /\ loc_src # hypre_MEMORY_DEVICE /\ loc_src # hypre_MEMORY_UNIFIED
    THEN LocalCopy
    ELSE IF loc_dst = hypre_MEMORY_UNIFIED THEN HostToDevice
    ELSE IF loc_src = hypre_MEMORY_UNIFIED THEN DeviceToHost
    ELSE IF /\ loc_dst = hypre_MEMORY_DEVICE
            /\ loc_src \in {hypre_MEMORY_HOST, hypre_MEMORY_HOST_PINNED}
    THEN HostToDevice
    ELSE IF /\ loc_dst \in {hypre_MEMORY_HOST, hypre_MEMORY_HOST_PINNED}
            /\ loc_src = hypre_MEMORY_DEVICE
    THEN DeviceToHost
    ELSE IF loc_dst = hypre_MEMORY_DEVICE /\ loc_src = hypre_MEMORY_DEVICE
    THEN DeviceToDevice
    ELSE WrongLocation

\* the ladder of hypre_Memcpy_core: the branch (loc_dst, loc_src) takes
Memcpy_branch(loc_dst, loc_src) ==
    IF /\ loc_dst # hypre_MEMORY_DEVICE /\ loc_dst # hypre_MEMORY_UNIFIED
       /\ loc_src # hypre_MEMORY_DEVICE /\ loc_src # hypre_MEMORY_UNIFIED
    THEN LocalCopy
    ELSE IF \/ loc_dst = hypre_MEMORY_UNIFIED /\ loc_src = hypre_MEMORY_DEVICE
            \/ loc_dst = hypre_MEMORY_DEVICE /\ loc_src = hypre_MEMORY_UNIFIED
            \/ loc_dst = hypre_MEMORY_UNIFIED /\ loc_src = hypre_MEMORY_UNIFIED
    THEN DeviceToDevice
    ELSE IF loc_dst = hypre_MEMORY_UNIFIED THEN HostToDevice
    ELSE IF loc_src = hypre_MEMORY_UNIFIED THEN DeviceToHost
    ELSE IF /\ loc_dst = hypre_MEMORY_DEVICE
            /\ loc_src \in {hypre_MEMORY_HOST, hypre_MEMORY_HOST_PINNED}
    THEN HostToDevice
    ELSE IF /\ loc_dst \in {hypre_MEMORY_HOST, hypre_MEMORY_HOST_PINNED}
            /\ loc_src = hypre_MEMORY_DEVICE
    THEN DeviceToHost
    ELSE IF loc_dst = hypre_MEMORY_DEVICE /\ loc_src = hypre_MEMORY_DEVICE
    THEN DeviceToDevice
    ELSE WrongLocation

\* the part of hypre_Memcpy_core after its tests of the size and the pointers
Memcpy_dispatch(h, dst, src, size, loc_dst, loc_src, ub) ==
    IF \/ hypre_CheckMemoryLocation(h, dst, loc_dst)
       \/ hypre_CheckMemoryLocation(h, src, loc_src)
    THEN CopyResult(NoBranch, <<"hypre_CheckMemoryLocation", "assert">>, TRUE,
                    h[dst].bytes)
    ELSE LET branch == Memcpy_branch(loc_dst, loc_src)
             w == hypre_WrongMemoryLocation
         IN  IF branch = WrongLocation
             THEN CopyResult(branch, w.trace, w.term, h[dst].bytes)
             ELSE Transfer(h, branch, dst, src, size, ub)

\* hypre_Memcpy_core without its tests of the size and of dst = src
Memcpy_core_always_dispatch(h, dst, src, size, loc_dst, loc_src, ub) ==
    IF dst = NULL \/ src = NULL
    THEN CopyResult(NoBranch, <<>>, FALSE, <<>>)
    ELSE Memcpy_dispatch(h, dst, src, size, loc_dst, loc_src, ub)

hypre_Memcpy_core(h, dst, src, size, loc_dst, loc_src, ub) ==
    IF size = 0
    THEN CopyResult(NoBranch, <<>>, FALSE, IF dst = NULL THEN <<>> ELSE h[dst].bytes)
    ELSE IF dst = NULL \/ src = NULL
    THEN LET a == hypre_assert(FALSE)
         IN  CopyResult(NoBranch, <<"hypre_Memcpy warning">> \o a.trace, a.term,
                        IF dst = NULL THEN <<>> ELSE h[dst].bytes)
    ELSE IF dst = src
    THEN CopyResult(NoBranch, <<>>, FALSE, h[dst].bytes)
    ELSE Memcpy_dispatch(h, dst, src, size, loc_dst, loc_src, ub)

\* _hypre_Memcpy(dst, src, size, loc_dst, loc_src): each pointer is NULL or a
\* buffer of at least size bytes
MemcpyCall(dst, src, size, loc_dst, loc_src, rec) ==
    /\ Running
    /\ dst # NULL => (heap[dst].live /\ size <= Len(heap[dst].bytes))
    /\ src # NULL => (heap[src].live /\ size <= Len(heap[src].bytes))
    /\ \E ub \in UBOutcomes :
         \E r \in { hypre_Memcpy_core(heap, dst, src, size, loc_dst, loc_src, ub) } :
             /\ heap' = IF dst # NULL
                        THEN [ heap EXCEPT ![dst].bytes = r.bytes ]
                        ELSE heap
             /\ alive' = ~r.term
             /\ last' = Record(rec,
                          [ op |-> "Memcpy", dst |-> dst, src |-> src, size |-> size,
                            loc_dst |-> loc_dst, loc_src |-> loc_src,
                            branch |-> r.branch, trace |-> r.trace, term |-> r.term ])
    /\ UNCHANGED <<build, handle, rm>>

Memcpy(dst, src, size, loc_dst, loc_src, rec) ==
    /\ MemcpyCall(dst, src, size, loc_dst, loc_src, rec)
    /\ UNCHANGED rt

(***************************************************************************)
(* SpecCopy: two buffers of MaxSize bytes, each at a location the build    *)
(* can allocate at, with any contents; copies between them with any        *)
(* pointers (NULL included), sizes and asserted locations.                 *)
(***************************************************************************)
AvailableLocations ==
    IF build.HYPRE_USING_GPU THEN MemoryLocations ELSE {hypre_MEMORY_HOST}

Contents == [ 1..MaxSize -> ByteVals ]

Buffers == { Block(location, bytes, "native") :
                location \in AvailableLocations, bytes \in Contents }

CopyBuffers == <<"X", "Y">>

InitCopy ==
    /\ build \in PlainBuilds
    /\ handle = hypre_UmpireInit(HYPRE_EXEC_DEVICE)
    /\ rm = {}
    /\ heap \in [ DOMAIN CopyBuffers -> Buffers ]
    /\ alive = TRUE
    /\ last = NoCall
    /\ rt = NoTrip

NextCopy ==
    /\ Running
    /\ \E dst \in {NULL} \cup DOMAIN CopyBuffers, src \in {NULL} \cup DOMAIN CopyBuffers,
          size \in Sizes, loc_dst \in LocationValues, loc_src \in LocationValues,
          rec \in BOOLEAN :
          Memcpy(dst, src, size, loc_dst, loc_src, rec)

SpecCopy == InitCopy /\ [][NextCopy]_vars

\* C4: a copy of size 0 (any pointers, NULL included, any location values) and
\* a copy whose dst and src are the same non-null address run no location
\* check and no transfer primitive, print no warning, return, and leave the
\* destination's bytes and all other state as they were.
C4_CopyNoOp ==
    [][ ( /\ last'.op = "Memcpy"
          /\ \/ last'.size = 0
             \/ last'.dst = last'.src /\ last'.dst # NULL )
        => /\ last'.trace = <<>>
           /\ last'.branch = NoBranch
           /\ ~last'.term /\ alive'
           /\ UNCHANGED <<build, handle, rm, heap>> ]_vars

\* dst = src, size > 0, in a debug accelerator build, at an asserted location
\* that is not the buffer's
C4_Witness ==
    /\ last.op = "Memcpy" /\ last.size > 0
    /\ last.dst = last.src /\ last.dst # NULL
    /\ build.HYPRE_DEBUG /\ build.HYPRE_USING_GPU
    /\ last.loc_dst # heap[last.dst].loc
    /\ alive

\* C5 as stated: a copy of size > 0 with a NULL source or destination prints
\* the warning, runs no transfer, and returns to its caller: the process is
\* not ended.
C5_NullPointerWarns ==
    (last.op = "Memcpy" /\ last.size > 0 /\ (last.dst = NULL \/ last.src = NULL))
    => /\ Has(last.trace, "hypre_Memcpy warning")
       /\ last.branch = NoBranch /\ ~HasAny(last.trace, TransferClasses)
       /\ ~last.term /\ alive

\* in a debug build the hypre_assert(0) after the warning ends the process
C5_NullPointerAborts ==
    /\ last.op = "Memcpy" /\ last.size > 0 /\ last.dst = NULL /\ last.src # NULL
    /\ build.HYPRE_DEBUG
    /\ last.trace = <<"hypre_Memcpy warning", "hypre_assert">>
    /\ last.term /\ ~alive

DeviceSide == {hypre_MEMORY_DEVICE, hypre_MEMORY_UNIFIED}

\* the reference table of transfer classes
ReferenceClass(loc_dst, loc_src) ==
    CASE loc_dst \in HostSide /\ loc_src \in HostSide -> LocalCopy
      [] loc_dst \in DeviceSide /\ loc_src \in DeviceSide -> DeviceToDevice
      [] loc_dst \in DeviceSide /\ loc_src \in HostSide -> HostToDevice
      [] loc_dst \in HostSide /\ loc_src \in DeviceSide -> DeviceToHost

\* C6: for each of the 16 (loc_dst, loc_src) pairs over the four locations, a
\* copy of size > 0 between distinct non-null pointers that is not stopped by
\* the debug location check takes one branch and it is the reference table's:
\* never the wrong-location fall-through.  The branch runs its own primitive
\* and no other: memcpy alone for the local class, and for the three device
\* classes the one cudaMemcpy of that kind in an accelerator build and
\* nothing in a build without an accelerator.
C6_DispatchTable ==
    ( /\ last.op = "Memcpy" /\ last.size > 0
      /\ last.dst # NULL /\ last.src # NULL /\ last.dst # last.src
      /\ last.loc_dst \in MemoryLocations /\ last.loc_src \in MemoryLocations
      /\ ~Has(last.trace, "hypre_CheckMemoryLocation") )
    => /\ last.branch \in TransferClasses
       /\ last.branch = ReferenceClass(last.loc_dst, last.loc_src)
       /\ ~Has(last.trace, "hypre_WrongMemoryLocation")
       /\ \A c \in TransferClasses \ {last.branch} : ~Has(last.trace, c)
       /\ IF last.branch = LocalCopy \/ build.HYPRE_USING_GPU
          THEN last.trace # <<>> /\ last.trace[1] = last.branch
          ELSE last.trace = <<>>

\* unified <- device goes device to device, and the bytes arrive
C6_Witness ==
    /\ last.op = "Memcpy" /\ last.size > 0
    /\ last.dst # NULL /\ last.src # NULL /\ last.dst # last.src
    /\ last.loc_dst = hypre_MEMORY_UNIFIED /\ last.loc_src = hypre_MEMORY_DEVICE
    /\ heap[last.dst].loc = hypre_MEMORY_UNIFIED
    /\ heap[last.src].loc = hypre_MEMORY_DEVICE
    /\ last.trace = <<DeviceToDevice>>
    /\ \A i \in 1..last.size : heap[last.dst].bytes[i] = heap[last.src].bytes[i]
    /\ alive

(***************************************************************************)
(* SpecRoundTrip: buffers A and C at location L1 and B at location L2, of  *)
(* MaxSize bytes each, A with any contents; copy(B, L2, A, L1, S) and then *)
(* copy(C, L1, B, L2, S).  rt keeps the script's position, its inputs and  *)
(* the bytes A and C held at the start.                                    *)
(***************************************************************************)
RoundTripBuffers == <<"A", "B", "C">>

Buf(name) == CHOOSE p \in DOMAIN RoundTripBuffers : RoundTripBuffers[p] = name

InitRoundTrip ==
    /\ build \in PlainBuilds
    /\ handle = hypre_UmpireInit(HYPRE_EXEC_DEVICE)
    /\ rm = {}
    /\ alive = TRUE
    /\ last = NoCall
    /\ \E L1 \in AvailableLocations, L2 \in AvailableLocations, S \in 1..MaxSize,
          a \in Contents, b \in Contents, c \in Contents :
          /\ heap = [ p \in DOMAIN RoundTripBuffers |->
                        CASE p = Buf("A") -> Block(L1, a, "native")
                          [] p = Buf("B") -> Block(L2, b, "native")
                          [] p = Buf("C") -> Block(L1, c, "native") ]
          /\ rt = [ step |-> "start", L1 |-> L1, L2 |-> L2, S |-> S, A |-> a, C |-> c ]

RoundTripOut ==
    /\ rt.step = "start"
    /\ MemcpyCall(Buf("B"), Buf("A"), rt.S, rt.L2, rt.L1, FALSE)
    /\ rt' = [ rt EXCEPT !.step = "out" ]

RoundTripBack ==
    /\ rt.step = "out"
    /\ MemcpyCall(Buf("C"), Buf("B"), rt.S, rt.L1, rt.L2, TRUE)
    /\ rt' = [ rt EXCEPT !.step = "back" ]

NextRoundTrip == RoundTripOut \/ RoundTripBack

SpecRoundTrip == InitRoundTrip /\ [][NextRoundTrip]_vars

\* C7: for every pair of locations (L1, L2) the build can hold buffers at and
\* every size S > 0, both copies of the round trip return, and after them the
\* first S bytes of C are the first S bytes A held at the start, A holds what
\* it held at the start, and the bytes of C past S are as they were.
C7_RoundTrip ==
    /\ rt.step \in {"out", "back"} => alive
    /\ rt.step = "back"
       => /\ \A i \in 1..rt.S : heap[Buf("C")].bytes[i] = rt.A[i]
          /\ heap[Buf("A")].bytes = rt.A
          /\ \A i \in (rt.S + 1)..MaxSize : heap[Buf("C")].bytes[i] = rt.C[i]

\* a host buffer of 0xAB bytes copied to the device and back to a host buffer
\* that held zeros
C7_Witness ==
    /\ rt.step = "back"
    /\ rt.L1 = hypre_MEMORY_HOST /\ rt.L2 = hypre_MEMORY_DEVICE
    /\ rt.S = MaxSize
    /\ \A i \in 1..MaxSize : rt.A[i] = 171 /\ rt.C[i] = 0
    /\ \A i \in 1..MaxSize : heap[Buf("C")].bytes[i] = 171
    /\ last.trace = <<DeviceToHost>>


(***************************************************************************)
(* Reallocation: hypre_ReAlloc and hypre_ReAlloc_v2.  A result carries the  *)
(* returned pointer, the trace, whether the process ended, and the heap,   *)
(* the own flags and the Umpire registry the call leaves.                   *)
(***************************************************************************)
ReAllocResult(ptr, trace, term, h, own, reg) ==
    [ ptr |-> ptr, trace |-> trace, term |-> term, heap |-> h, own |-> own, rm |-> reg ]

\* the heap once the allocation m at location has been made in h
HeapAfterAlloc(h, m, location) ==
    IF m.ptr # NULL THEN [ h EXCEPT ![m.ptr] = Block(location, m.bytes, m.via) ] ELSE h

\* the heap once the release f of ptr has been made in h
HeapAfterFree(h, ptr, f) ==
    IF ptr # NULL /\ f.via # "none" THEN [ h EXCEPT ![ptr] = NoBlock ] ELSE h

\* the first bytes are kept, the block is cut or grown to size
Resize(bytes, size, g) ==
    [ i \in 1..size |-> IF i <= Len(bytes) THEN bytes[i] ELSE g ]

\* realloc answers NULL (the block stays), ptr (resized in place) or a free
\* address (the block moved)
ReallocResponses(ptr, size) ==
    IF ptr = NULL \/ size = 0 THEN Responses(size) ELSE Responses(size) \cup {ptr}

\* realloc(ptr, size), or Umpire's reallocate: defined on a host block of the
\* allocator asked, undefined behaviour on any other pointer
realloc(event, via, ptr, size, resp, g, ub) ==
    IF heap[ptr].loc = hypre_MEMORY_HOST /\ heap[ptr].via = via
    THEN IF resp = NULL
         THEN ReAllocResult(NULL, <<event>>, FALSE, heap, handle.own_umpire_pool, rm)
         ELSE ReAllocResult(resp, <<event>>, FALSE,
                  [ [ heap EXCEPT ![ptr] = NoBlock ] EXCEPT
                      ![resp] = Block(hypre_MEMORY_HOST,
                                      Resize(heap[ptr].bytes, size, g), via) ],
                  handle.own_umpire_pool, rm)
    ELSE IF ub = "fault"
    THEN ReAllocResult(NULL, <<event, "SIGSEGV">>, TRUE, heap, handle.own_umpire_pool, rm)
    ELSE ReAllocResult(ptr, <<event>>, FALSE, heap, handle.own_umpire_pool, rm)

hypre_umpire_host_pooled_realloc(ptr, size, resp, g, ub) ==
    LET pool_name == handle.umpire_pool_name[hypre_MEMORY_HOST]
        a == hypre_assert(pool_name \in rm)
    IN  IF a.term
        THEN ReAllocResult(NULL, a.trace, TRUE, heap, handle.own_umpire_pool, rm)
        ELSE realloc("umpire_resourcemanager_reallocate_with_allocator",
                     IF pool_name \in rm THEN pool_name ELSE "none",
                     ptr, size, resp, g, ub)

\* ReAlloc_resize without its test of the location
ReAlloc_resize_anywhere(ptr, size, location, resp, g, ub) ==
    LET r == IF build.HYPRE_USING_UMPIRE_HOST
             THEN hypre_umpire_host_pooled_realloc(ptr, size, resp, g, ub)
             ELSE realloc("realloc", "native", ptr, size, resp, g, ub)
        o == hypre_OutOfMemory
    IN  IF r.term \/ r.ptr # NULL THEN r
        ELSE ReAllocResult(NULL, r.trace \o o.trace, o.term, r.heap, r.own, r.rm)

\* hypre_ReAlloc past its tests of the size and of the pointer
ReAlloc_resize(ptr, size, location, resp, g, ub) ==
    IF hypre_GetActualMemLocation(location) # hypre_MEMORY_HOST
    THEN LET a == hypre_assert(FALSE)
         IN  ReAllocResult(NULL,
                 <<"hypre_printf">> \o a.trace
                     \o (IF a.term THEN <<>> ELSE hypre_MPI_Abort.trace),
                 TRUE, heap, handle.own_umpire_pool, rm)
    ELSE LET r == IF build.HYPRE_USING_UMPIRE_HOST
                  THEN hypre_umpire_host_pooled_realloc(ptr, size, resp, g, ub)
                  ELSE realloc("realloc", "native", ptr, size, resp, g, ub)
             o == hypre_OutOfMemory
         IN  IF r.term \/ r.ptr # NULL THEN r
             ELSE ReAllocResult(NULL, r.trace \o o.trace, o.term, r.heap, r.own, r.rm)

\* hypre_ReAlloc with the test of the location put first
ReAlloc_host_only(ptr, size, location, resp, g, ub) ==
    IF hypre_GetActualMemLocation(location) # hypre_MEMORY_HOST
    THEN ReAlloc_resize(ptr, size, location, resp, g, ub)
    ELSE IF size = 0
    THEN LET f == hypre_Free_core(heap, rm, ptr, hypre_GetActualMemLocation(location))
         IN  ReAllocResult(NULL, f.trace, f.term, HeapAfterFree(heap, ptr, f),
                           handle.own_umpire_pool, rm)
    ELSE IF ptr = NULL
    THEN LET actual == hypre_GetActualMemLocation(location)
             m == hypre_MAlloc_core(size, 0, actual, resp, g, ub)
         IN  ReAllocResult(m.ptr, m.trace, m.term, HeapAfterAlloc(heap, m, actual),
                           m.own, m.rm)
    ELSE ReAlloc_resize(ptr, size, location, resp, g, ub)

hypre_ReAlloc(ptr, size, location, resp, g, ub) ==
    IF size = 0
    THEN LET f == hypre_Free_core(heap, rm, ptr, hypre_GetActualMemLocation(location))
         IN  ReAllocResult(NULL, f.trace, f.term, HeapAfterFree(heap, ptr, f),
                           handle.own_umpire_pool, rm)
    ELSE IF ptr = NULL
    THEN LET actual == hypre_GetActualMemLocation(location)
             m == hypre_MAlloc_core(size, 0, actual, resp, g, ub)
         IN  ReAllocResult(m.ptr, m.trace, m.term, HeapAfterAlloc(heap, m, actual),
                           m.own, m.rm)
    ELSE ReAlloc_resize(ptr, size, location, resp, g, ub)

\* ReAlloc_v2_move without its copy
ReAlloc_v2_move_without_copy(ptr, old_size, new_size, location, resp, g, ub) ==
    LET actual == hypre_GetActualMemLocation(location)
        m == hypre_MAlloc_core(new_size, 0, actual, resp, g, ub)
        h1 == HeapAfterAlloc(heap, m, actual)
        f == hypre_Free_core(h1, m.rm, ptr, actual)
    IN  IF m.term
        THEN ReAllocResult(NULL, m.trace, TRUE, h1, m.own, m.rm)
        ELSE ReAllocResult(m.ptr, m.trace \o f.trace, f.term,
                           HeapAfterFree(h1, ptr, f), m.own, m.rm)

\* hypre_ReAlloc_v2 once the old block has been freed (f) from h2: the test of
\* the new pointer
ReAlloc_v2_freed(ptr, m, c, h2, f) ==
    LET h3 == HeapAfterFree(h2, ptr, f)
        o == hypre_OutOfMemory
    IN  IF f.term
        THEN ReAllocResult(NULL, m.trace \o c.trace \o f.trace, TRUE, h3, m.own, m.rm)
        ELSE IF m.ptr = NULL
        THEN ReAllocResult(NULL, m.trace \o c.trace \o f.trace \o o.trace, o.term,
                           h3, m.own, m.rm)
        ELSE ReAllocResult(m.ptr, m.trace \o c.trace \o f.trace, FALSE, h3, m.own, m.rm)

\* hypre_ReAlloc_v2 once the copy c into the new block has been made in h1:
\* the old block is freed
ReAlloc_v2_copied(ptr, actual, m, h1, c) ==
    LET h2 == IF m.ptr # NULL THEN [ h1 EXCEPT ![m.ptr].bytes = c.bytes ] ELSE h1
    IN  IF c.term
        THEN ReAllocResult(NULL, m.trace \o c.trace, TRUE, h2, m.own, m.rm)
        ELSE ReAlloc_v2_freed(ptr, m, c, h2, hypre_Free_core(h2, m.rm, ptr, actual))

\* hypre_ReAlloc_v2 once the new block m has been allocated: the smaller size
\* is copied from the old block
ReAlloc_v2_allocated(ptr, smaller_size, actual, ub, m) ==
    LET h1 == HeapAfterAlloc(heap, m, actual)
    IN  IF m.term
        THEN ReAllocResult(NULL, m.trace, TRUE, h1, m.own, m.rm)
        ELSE ReAlloc_v2_copied(ptr, actual, m, h1,
                 hypre_Memcpy_core(h1, m.ptr, ptr, smaller_size, actual, actual, ub))

\* hypre_ReAlloc_v2 past its tests: allocate, copy the smaller size, free, and
\* the test of the new pointer
ReAlloc_v2_move(ptr, old_size, new_size, location, resp, g, ub) ==
    LET actual == hypre_GetActualMemLocation(location)
        smaller_size == IF new_size > old_size THEN old_size ELSE new_size
    IN  ReAlloc_v2_allocated(ptr, smaller_size, actual, ub,
            hypre_MAlloc_core(new_size, 0, actual, resp, g, ub))

hypre_ReAlloc_v2(ptr, old_size, new_size, location, resp, g, ub) ==
    IF new_size = 0
    THEN LET f == hypre_Free_core(heap, rm, ptr, hypre_GetActualMemLocation(location))
         IN  ReAllocResult(NULL, f.trace, f.term, HeapAfterFree(heap, ptr, f),
                           handle.own_umpire_pool, rm)
    ELSE IF ptr = NULL
    THEN LET actual == hypre_GetActualMemLocation(location)
             m == hypre_MAlloc_core(new_size, 0, actual, resp, g, ub)
         IN  ReAllocResult(m.ptr, m.trace, m.term, HeapAfterAlloc(heap, m, actual),
                           m.own, m.rm)
    ELSE IF old_size = new_size
    THEN ReAllocResult(ptr, <<>>, FALSE, heap, handle.own_umpire_pool, rm)
    ELSE ReAlloc_v2_move(ptr, old_size, new_size, location, resp, g, ub)

\* hypre_ReAlloc(ptr, size, location): ptr is NULL or a block the caller holds
ReAlloc(ptr, size, location, rec) ==
    /\ Running
    /\ ptr # NULL => heap[ptr].live
    /\ \E resp \in ReallocResponses(ptr, size), g \in Garbage(size), ub \in UBOutcomes :
         \E r \in { hypre_ReAlloc(ptr, size, location, resp, g, ub) } :
             /\ handle' = [ handle EXCEPT !.own_umpire_pool = r.own ]
             /\ rm' = r.rm
             /\ heap' = r.heap
             /\ alive' = ~r.term
             /\ last' = Record(rec,
                          [ op |-> "ReAlloc", ptr |-> ptr, old_size |-> 0,
                            size |-> size, location |-> location,
                            resp |-> resp, g |-> g, ub |-> ub,
                            old |-> BlockAt(heap, ptr), ret |-> r.ptr,
                            trace |-> r.trace, term |-> r.term ])
    /\ UNCHANGED <<build, rt>>

\* hypre_ReAlloc_v2(ptr, old_size, new_size, location): ptr is NULL or a block
\* the caller holds, of at least old_size bytes
ReAlloc_v2(ptr, old_size, new_size, location, rec) ==
    /\ Running
    /\ ptr # NULL => (heap[ptr].live /\ old_size <= Len(heap[ptr].bytes))
    /\ \E resp \in Responses(new_size), g \in Garbage(new_size), ub \in UBOutcomes :
         \E r \in { hypre_ReAlloc_v2(ptr, old_size, new_size, location, resp, g, ub) } :
             /\ handle' = [ handle EXCEPT !.own_umpire_pool = r.own ]
             /\ rm' = r.rm
             /\ heap' = r.heap
             /\ alive' = ~r.term
             /\ last' = Record(rec,
                          [ op |-> "ReAlloc_v2", ptr |-> ptr, old_size |-> old_size,
                            size |-> new_size, location |-> location,
                            resp |-> resp, g |-> g, ub |-> ub,
                            old |-> BlockAt(heap, ptr), ret |-> r.ptr,
                            trace |-> r.trace, term |-> r.term ])
    /\ UNCHANGED <<build, rt>>

(***************************************************************************)
(* The reallocating program.  Its heap has the two addresses a            *)
(* reallocation deals with, the one of ptr and the one of the new block;   *)
(* blocks come from hypre_MAlloc.                                          *)
(***************************************************************************)
ReAllocAddrs == {1, 2}

\* one size more than the router's, so that a block can grow and shrink
ReAllocSizes == 0..(MaxSize + 1)

\* the router's builds, and those whose device memory is unified memory
ReAllocBuilds == { b \in Builds : ~b.HYPRE_USING_UMPIRE_DEVICE }

InitReAlloc ==
    /\ build \in ReAllocBuilds
    /\ handle = hypre_UmpireInit(HYPRE_EXEC_DEVICE)
    /\ rm = {}
    /\ heap = [ a \in ReAllocAddrs |-> NoBlock ]
    /\ alive = TRUE
    /\ last = NoCall
    /\ rt = NoTrip

NextReAlloc ==
    \/ /\ Running
       /\ \E size \in ReAllocSizes, zeroinit \in {0, 1}, location \in ConceptualLocations :
             MAlloc(size, zeroinit, hypre_GetActualMemLocation(location), FALSE)
    \/ /\ Running
       /\ \E ptr \in {NULL} \cup ReAllocAddrs, size \in ReAllocSizes,
             location \in ConceptualLocations, rec \in BOOLEAN :
             ReAlloc(ptr, size, location, rec)
    \/ /\ Running
       /\ \E ptr \in {NULL} \cup ReAllocAddrs, old_size \in ReAllocSizes,
             new_size \in ReAllocSizes, location \in ConceptualLocations,
             rec \in BOOLEAN :
             ReAlloc_v2(ptr, old_size, new_size, location, rec)

SpecReAlloc == InitReAlloc /\ [][NextReAlloc]_vars


ReAllocCalls == {"ReAlloc", "ReAlloc_v2"}

\* C11: for both hypre_ReAlloc and hypre_ReAlloc_v2, at every location, a new
\* size of 0 has exactly the effect of hypre_Free of the pointer (nothing at
\* all for NULL) and returns NULL, and a NULL pointer with a new size n > 0
\* has exactly the effect and the result of hypre_MAlloc(n, location), without
\* zero fill, whatever the location and the old size given.
C11_ReAllocFreesOrAllocates ==
    [][ (last.op = "none" /\ last'.op \in ReAllocCalls) =>
          LET c == last'
              actual == hypre_GetActualMemLocation(c.location)
              f == hypre_Free_core(heap, rm, c.ptr, actual)
              m == hypre_MAlloc_core(c.size, 0, actual, c.resp, c.g, c.ub)
          IN  /\ c.size = 0 =>
                    /\ c.ret = NULL
                    /\ c.trace = f.trace /\ c.term = f.term
                    /\ heap' = HeapAfterFree(heap, c.ptr, f)
                    /\ c.ptr = NULL => (heap' = heap /\ c.trace = <<>> /\ ~c.term)
                    /\ rm' = rm /\ handle' = handle
              /\ (c.size > 0 /\ c.ptr = NULL) =>
                    /\ c.ret = m.ptr
                    /\ c.trace = m.trace /\ c.term = m.term
                    /\ heap' = HeapAfterAlloc(heap, m, actual)
                    /\ rm' = m.rm
                    /\ handle' = [ handle EXCEPT !.own_umpire_pool = m.own ]
      ]_vars

\* hypre_ReAlloc of NULL allocated a device block; no block was held before
C11_Witness ==
    /\ last.op = "ReAlloc" /\ last.ptr = NULL /\ last.size > 0
    /\ last.location = HYPRE_MEMORY_DEVICE
    /\ last.ret # NULL
    /\ heap[last.ret].live /\ heap[last.ret].loc = hypre_MEMORY_DEVICE
    /\ Len(heap[last.ret].bytes) = last.size


ReallocEvents == {"realloc", "umpire_resourcemanager_reallocate_with_allocator"}

\* a recorded hypre_ReAlloc of a held block to a size above 0, at the location
\* the block was allocated at
ReAllocSameLocation ==
    /\ last.op = "ReAlloc" /\ last.ptr # NULL /\ last.size > 0
    /\ last.old.loc = hypre_GetActualMemLocation(last.location)

\* C12 as stated: hypre_ReAlloc of a held block to a size above 0, at any of
\* the four locations, hands the block to the realloc of that location's
\* backend or pool and returns the resized pointer.
C12_ReAllocAnyLocation ==
    ReAllocSameLocation =>
        /\ HasAny(last.trace, ReallocEvents)
        /\ last.resp # NULL => (last.ret = last.resp /\ ~last.term)

\* C12 (amended): hypre_ReAlloc of a held block to a size above 0 resizes only
\* where the location resolves to host memory: there it hands the block to
\* realloc (to the host pool's reallocate in a build with the Umpire host
\* pool) and returns what that returns, the block cut or grown to the new
\* size with its first bytes kept, or NULL with the out-of-memory diagnostic
\* and the block as it was.  Where the location resolves to anything else it
\* prints a diagnostic and ends the process; no realloc runs and the block
\* stays as it was.
C12_ReAllocHostOnly ==
    ReAllocSameLocation =>
        IF last.old.loc = hypre_MEMORY_HOST
        THEN /\ last.trace[1] = IF build.HYPRE_USING_UMPIRE_HOST
                                THEN "umpire_resourcemanager_reallocate_with_allocator"
                                ELSE "realloc"
             /\ last.ret = last.resp
             /\ last.ret # NULL =>
                    /\ ~last.term /\ Len(last.trace) = 1
                    /\ heap[last.ret] = Block(hypre_MEMORY_HOST,
                                              Resize(last.old.bytes, last.size, last.g),
                                              last.old.via)
                    /\ last.ret # last.ptr => ~heap[last.ptr].live
             /\ last.ret = NULL =>
                    /\ Has(last.trace, "hypre_OutOfMemory")
                    /\ ~Has(last.trace, "hypre_MPI_Abort")
                    /\ last.term = build.HYPRE_DEBUG
                    /\ heap[last.ptr] = last.old
        ELSE /\ last.term /\ last.ret = NULL
             /\ last.trace[1] = "hypre_printf"
             /\ Has(last.trace, "hypre_assert") \/ Has(last.trace, "hypre_MPI_Abort")
             /\ ~HasAny(last.trace, ReallocEvents)
             /\ heap[last.ptr] = last.old

\* a host block grew and moved: the old address is free, the new block keeps
\* the old bytes
C12_Witness ==
    /\ ReAllocSameLocation
    /\ last.old.loc = hypre_MEMORY_HOST
    /\ last.ret \notin {NULL, last.ptr}
    /\ last.size > Len(last.old.bytes)
    /\ ~heap[last.ptr].live
    /\ heap[last.ret].bytes[1] = last.old.bytes[1]
    /\ last.old.bytes[1] # last.g


AllocPrimitives ==
    {"malloc", "cudaMalloc", "cudaMallocManaged", "umpire_allocator_allocate"}

FreePrimitives == {"free", "cudaFree", "umpire_allocator_deallocate"}

\* the places of a trace that hold an event of the set
Places(trace, events) == { i \in 1..Len(trace) : trace[i] \in events }

\* a recorded hypre_ReAlloc_v2 of a held block, at the location the block was
\* allocated at, to another size above 0, whose allocation succeeded
ReAllocV2Moved ==
    /\ last.op = "ReAlloc_v2" /\ last.ptr # NULL /\ last.size > 0
    /\ last.old_size # last.size
    /\ last.old.loc = hypre_GetActualMemLocation(last.location)
    /\ last.resp # NULL

\* C13: hypre_ReAlloc_v2 of a held block to another size above 0 allocates
\* once, at the new size, then copies min(old_size, new_size) bytes from the
\* old block to the new one (one transfer, none for 0 bytes), then frees the
\* old block once, in this order, and returns the new pointer; afterwards the
\* new block starts with the old block's first min(old_size, new_size) bytes
\* and the old block is released: its only release comes after the only read.
C13_ReAllocV2Order ==
    ReAllocV2Moved =>
        LET smaller == IF last.size > last.old_size THEN last.old_size ELSE last.size
            a == Places(last.trace, AllocPrimitives)
            c == Places(last.trace, TransferClasses)
            f == Places(last.trace, FreePrimitives)
        IN  /\ ~last.term
            /\ last.ret = last.resp /\ last.ret # last.ptr
            /\ Cardinality(a) = 1 /\ Cardinality(f) = 1
            /\ Cardinality(c) = IF smaller > 0 THEN 1 ELSE 0
            /\ \A i \in a, j \in c : i < j
            /\ \A j \in a \cup c, k \in f : j < k
            /\ ~HasAny(last.trace, ErrorEvents)
            /\ heap[last.ret].live
            /\ heap[last.ret].loc = last.old.loc
            /\ Len(heap[last.ret].bytes) = last.size
            /\ \A i \in 1..smaller : heap[last.ret].bytes[i] = last.old.bytes[i]
            /\ \A i \in (smaller + 1)..last.size : heap[last.ret].bytes[i] = last.g
            /\ ~heap[last.ptr].live

\* a zero-filled device block grew by hypre_ReAlloc_v2: the new block starts
\* with the old zero and ends with what the allocator left there
C13_Witness ==
    /\ ReAllocV2Moved
    /\ last.old.loc = hypre_MEMORY_DEVICE
    /\ last.old_size = Len(last.old.bytes) /\ last.old_size > 0
    /\ last.size > last.old_size
    /\ last.trace = <<"cudaMalloc", DeviceToDevice, "cudaFree">>
    /\ heap[last.ret].bytes[1] = 0 /\ last.old.bytes[1] = 0
    /\ heap[last.ret].bytes[last.size] # 0
    /\ ~heap[last.ptr].live


(***************************************************************************)
(* hypre_CAlloc over every pair of size_t values: the router's initial      *)
(* state, each count and element size below 2^SizeBits.                    *)
(***************************************************************************)
SizeValues == 0..(SizeMod - 1)

NextCAlloc ==
    /\ Running
    /\ \E count \in SizeValues, elt_size \in SizeValues,
          location \in ConceptualLocations, rec \in BOOLEAN :
          hypre_CAlloc(count, elt_size, location, rec)

SpecCAlloc == Init /\ [][NextCAlloc]_vars

\* C14: hypre_CAlloc(count, elt_size, location) is the zero-filling allocate
\* of count * elt_size taken in size_t, that is modulo 2^SizeBits, with no
\* test for overflow: it returns NULL, calling nothing, when the wrapped
\* product is 0, and otherwise what hypre_MAlloc_core(wrapped product, 1, ...)
\* returns, a block of exactly the wrapped product's size whose bytes are all 0.
C14_CAllocWraps ==
    [][ (last.op = "none" /\ last'.op = "CAlloc") =>
          LET c == last'
              wrapped == (c.count * c.elt_size) % SizeMod
          IN  /\ c.size = wrapped /\ c.zeroinit = 1
              /\ wrapped = 0 => (c.ret = NULL /\ c.trace = <<>> /\ ~c.term /\ heap' = heap)
              /\ \E g \in Garbage(wrapped), ub \in UBOutcomes :
                    LET m == hypre_MAlloc_core(wrapped, 1, c.location, c.resp, g, ub)
                    IN  /\ c.ret = m.ptr /\ c.trace = m.trace /\ c.term = m.term
                        /\ heap' = HeapAfterAlloc(heap, m, c.location)
              /\ c.ret # NULL =>
                    /\ wrapped > 0 /\ ~c.term
                    /\ heap'[c.ret].live
                    /\ heap'[c.ret].bytes = Fill(wrapped, 0)
      ]_vars

\* the product overflowed size_t and the block has the size that is left
C14_Witness ==
    /\ last.op = "CAlloc"
    /\ last.count * last.elt_size >= SizeMod
    /\ last.size = (last.count * last.elt_size) % SizeMod /\ last.size > 0
    /\ last.ret # NULL
    /\ heap[last.ret].bytes = Fill(last.size, 0)


(***************************************************************************)
(* The backends of allocate and free: every build but those of unified     *)
(* memory, which only changes what a conceptual location resolves to; the  *)
(* user's device allocator and deallocator are registered, each by itself, *)
(* while blocks are held.                                                  *)
(***************************************************************************)
BackendBuilds == { b \in Builds : ~b.HYPRE_USING_UNIFIED_MEMORY }

InitBackend ==
    /\ build \in BackendBuilds
    /\ handle = hypre_UmpireInit(HYPRE_EXEC_DEVICE)
    /\ rm = {}
    /\ heap = [ a \in Addrs |-> NoBlock ]
    /\ alive = TRUE
    /\ last = NoCall
    /\ rt = NoTrip

NextBackend ==
    \/ /\ Running
       /\ \E size \in Sizes, zeroinit \in {0, 1}, location \in MemoryLocations,
             rec \in BOOLEAN :
             MAlloc(size, zeroinit, location, rec)
    \/ /\ Running
       /\ \E ptr \in Pointers, location \in MemoryLocations, rec \in BOOLEAN :
             Free(ptr, location, rec)
    \/ \E registered \in BOOLEAN : hypre_SetUserDeviceMalloc(registered)
    \/ \E registered \in BOOLEAN : hypre_SetUserDeviceMfree(registered)

SpecBackend == InitBackend /\ [][NextBackend]_vars


\* the build keeps a pool for the location
UsingUmpire(location) ==
    CASE location = hypre_MEMORY_HOST -> build.HYPRE_USING_UMPIRE_HOST
      [] location = hypre_MEMORY_DEVICE -> build.HYPRE_USING_UMPIRE_DEVICE
      [] location = hypre_MEMORY_UNIFIED -> build.HYPRE_USING_UMPIRE_UM
      [] location = hypre_MEMORY_HOST_PINNED -> build.HYPRE_USING_UMPIRE_PINNED
      [] OTHER -> FALSE

UserAllocators == {"user_device_malloc"}
PoolAllocators == {"umpire_allocator_allocate"}
NativeAllocators == {"malloc", "calloc", "cudaMalloc", "cudaMallocManaged", "cudaMallocHost"}

\* C15: a request of size > 0, at a location the build has memory of, goes to
\* the user's allocator if one is registered for the location (the device is
\* the one location that has one), else to the location's pool if the build
\* keeps one, else to the native allocator; exactly one of the three is
\* called, once; and with zero fill every byte of the block returned is 0,
\* whichever of them produced it.
C15_OneBackend ==
    ( /\ last.op = "MAlloc" /\ last.size > 0
      /\ last.location \in MemoryLocations
      /\ last.location = hypre_MEMORY_HOST \/ build.HYPRE_USING_GPU )
    => LET expected ==
               IF last.location = hypre_MEMORY_DEVICE /\ handle.user_device_malloc
               THEN UserAllocators
               ELSE IF UsingUmpire(last.location) THEN PoolAllocators
               ELSE NativeAllocators
           called == Places(last.trace,
                            UserAllocators \cup PoolAllocators \cup NativeAllocators)
       IN  /\ Cardinality(called) = 1
           /\ \A i \in called : last.trace[i] \in expected
           /\ last.ret # NULL =>
                 /\ heap[last.ret].via =
                        IF expected = UserAllocators THEN "user"
                        ELSE IF expected = PoolAllocators
                        THEN handle.umpire_pool_name[last.location]
                        ELSE "native"
                 /\ last.zeroinit = 1 => heap[last.ret].bytes = Fill(last.size, 0)

\* a zero-filled device block from the user's allocator, in a build that keeps
\* a device pool
C15_Witness ==
    /\ last.op = "MAlloc" /\ last.size > 0 /\ last.zeroinit = 1
    /\ last.location = hypre_MEMORY_DEVICE
    /\ build.HYPRE_USING_UMPIRE_DEVICE /\ handle.user_device_malloc
    /\ last.ret # NULL
    /\ last.trace = <<"user_device_malloc", "cudaMemset">>
    /\ heap[last.ret].bytes = Fill(last.size, 0)
    /\ rm = {}


\* C16 as stated: over any sequence of registrations of the user's device
\* allocator and deallocator, allocations and frees, a block freed at the
\* location it was allocated at is released through the counterpart of what
\* allocated it (the user's deallocator for the user's allocator, the pool
\* for the pool, the native free for the native allocator), never another.
C16_FreeThroughCounterpart ==
    ( /\ last.op = "Free" /\ last.ptr # NULL
      /\ last.old.loc = last.location
      /\ last.via # "none" )
    => last.via = last.old.via

\* a device block from the user's allocator, registered without a
\* deallocator, was handed to cudaFree
C16_UserBlockToNativeFree ==
    /\ last.op = "Free" /\ last.ptr # NULL
    /\ last.location = hypre_MEMORY_DEVICE /\ last.old.loc = hypre_MEMORY_DEVICE
    /\ last.old.via = "user"
    /\ handle.user_device_malloc /\ ~handle.user_device_mfree
    /\ last.trace = <<"cudaFree">> /\ last.via = "native"
    /\ ~last.term


(***************************************************************************)
(* The Umpire pools.  The resource manager is the process's: rm may hold   *)
(* a pool of the application's before this layer allocates.  rt keeps the  *)
(* history the handle does not: the pools found at the start, the pools    *)
(* each location made, how often each pool was released, and the number of *)
(* hypre_UmpireFinalize calls.                                             *)
(***************************************************************************)
MaxFinalize == 2

AppPool == "APP_POOL"

\* a name of more than HYPRE_UMPIRE_POOL_NAME_MAX_LEN characters
LongPoolName == "A_POOL_NAME_OVER_THE_MAXIMAL_LENGTH"

\* the pool code of the four locations is one text under four names; the
\* device's is the one exercised
PoolLocations == {hypre_MEMORY_DEVICE}

PoolNames == { DefaultPoolName[l] : l \in PoolLocations } \cup {AppPool}

UmpireBuilds ==
    { b \in Builds : b.HYPRE_USING_UMPIRE_DEVICE /\ ~b.HYPRE_USING_UNIFIED_MEMORY }

InitUmpire ==
    /\ build \in UmpireBuilds
    /\ handle = hypre_UmpireInit(HYPRE_EXEC_DEVICE)
    /\ rm \in SUBSET {AppPool}
    /\ heap = [ a \in Addrs |-> NoBlock ]
    /\ alive = TRUE
    /\ last = NoCall
    /\ rt = [ step |-> "umpire", found |-> rm,
              made |-> [ l \in MemoryLocations |-> {} ],
              released |-> [ n \in PoolNames |-> 0 ],
              finalized |-> 0 ]

\* an allocation, and the pool it made for the location if it made one
PooledMAlloc(size, location, rec) ==
    /\ MAllocCall(size, 0, location, rec)
    /\ rt' = [ rt EXCEPT !.step = "umpire",
                         !.made[location] = @ \cup (rm' \ rm) ]

\* hypre_UmpireInit on the handle in use: the names and the own flags are reset
UmpireInit ==
    /\ Running
    /\ handle' = [ handle EXCEPT !.umpire_pool_name = DefaultPoolName,
                                 !.own_umpire_pool = [ l \in MemoryLocations |-> 0 ] ]
    /\ rt' = [ rt EXCEPT !.step = "umpire" ]
    /\ UNCHANGED <<build, rm, heap, alive, last>>

\* HYPRE_SetUmpireHostPoolName, ...DevicePoolName, ...UMPoolName, ...PinnedPoolName
HYPRE_SetUmpirePoolName(location, pool_name) ==
    /\ Running
    /\ handle' = IF pool_name = LongPoolName
                 THEN handle
                 ELSE [ handle EXCEPT !.umpire_pool_name[location] = pool_name ]
    /\ UNCHANGED <<build, rm, heap, alive, last, rt>>

UmpireFinalizeOrder ==
    <<hypre_MEMORY_HOST, hypre_MEMORY_DEVICE, hypre_MEMORY_UNIFIED,
      hypre_MEMORY_HOST_PINNED>>

\* the blocks of hypre_UmpireFinalize from the i-th on: where the build keeps
\* a pool of the location and the own flag is set, the allocator of the
\* configured name is looked up and released; a name that is not registered
\* gives no allocator, and the release is undefined behaviour
RECURSIVE ReleaseOwned(_, _, _)
ReleaseOwned(i, acc, ub) ==
    IF i > Len(UmpireFinalizeOrder) \/ acc.term THEN acc
    ELSE LET l == UmpireFinalizeOrder[i]
             pool_name == handle.umpire_pool_name[l]
         IN  IF UsingUmpire(l) /\ handle.own_umpire_pool[l] # 0
             THEN IF pool_name \in rm
                  THEN ReleaseOwned(i + 1,
                           [ acc EXCEPT !.released[pool_name] = @ + 1,
                                        !.trace = Append(@, "umpire_allocator_release") ],
                           ub)
                  ELSE IF ub = "fault"
                  THEN [ acc EXCEPT !.term = TRUE,
                                    !.trace = @ \o <<"umpire_allocator_release", "SIGSEGV">> ]
                  ELSE ReleaseOwned(i + 1,
                           [ acc EXCEPT !.trace = Append(@, "umpire_allocator_release") ],
                           ub)
             ELSE ReleaseOwned(i + 1, acc, ub)

hypre_UmpireFinalize ==
    /\ Running
    /\ rt.finalized < MaxFinalize
    /\ \E ub \in UBOutcomes :
         \E r \in { ReleaseOwned(1, [ released |-> rt.released, trace |-> <<>>,
                                      term |-> FALSE ], ub) } :
             /\ rt' = [ rt EXCEPT !.step = "finalized", !.released = r.released,
                                  !.finalized = @ + 1 ]
             /\ alive' = ~r.term
    /\ UNCHANGED <<build, handle, rm, heap, last>>

NextUmpire ==
    \/ /\ Running
       /\ \E size \in Sizes, location \in PoolLocations, rec \in BOOLEAN :
             PooledMAlloc(size, location, rec)
    \/ /\ Running
       /\ \E ptr \in Pointers, location \in PoolLocations, rec \in BOOLEAN :
             Free(ptr, location, rec)
    \/ \E location \in PoolLocations, pool_name \in PoolNames \cup {LongPoolName} :
          HYPRE_SetUmpirePoolName(location, pool_name)
    \/ UmpireInit
    \/ hypre_UmpireFinalize

SpecUmpire == InitUmpire /\ [][NextUmpire]_vars


\* every pool this layer made, at any location
MadePools == UNION { rt.made[l] : l \in MemoryLocations }

\* C17 as stated: per location this layer makes at most one pool, ever.
C17_OnePoolPerLocation ==
    \A l \in MemoryLocations : Cardinality(rt.made[l]) <= 1

\* C17 (amended): a pooled allocation makes a pool exactly when no pool of
\* the name configured at that moment is registered, so no name gets a second
\* pool and nothing is made before the first pooled allocation; it then sets
\* the location's own flag.  When a pool of the configured name is registered,
\* made by this layer or found there, the allocation takes the block from it,
\* makes nothing and leaves the own flag as it was (0 if nothing was made).
C17_PoolMadeWhenNameUnregistered ==
    [][ ( /\ last.op = "none" /\ last'.op = "MAlloc" /\ last'.size > 0
          /\ last'.location \in PoolLocations )
        => LET l == last'.location
               pool_name == handle.umpire_pool_name[l]
           IN  /\ Has(last'.trace, "umpire_allocator_allocate")
               /\ pool_name \in rm =>
                     /\ ~Has(last'.trace, "umpire_make_allocator_pool")
                     /\ rm' = rm /\ handle' = handle /\ rt'.made = rt.made
               /\ pool_name \notin rm =>
                     /\ last'.trace[1] = "umpire_make_allocator_pool"
                     /\ rm' = rm \cup {pool_name}
                     /\ handle'.own_umpire_pool[l] = 1
                     /\ rt'.made[l] = rt.made[l] \cup {pool_name}
               /\ rt.made[l] = {} /\ pool_name \in rm => handle'.own_umpire_pool[l] = 0
               /\ last'.ret # NULL => heap'[last'.ret].via = pool_name
      ]_vars

\* the application's pool carries the configured name: the block came from
\* it, nothing was made and the own flag is 0
C17_Witness ==
    /\ last.op = "MAlloc" /\ last.size > 0 /\ last.location = hypre_MEMORY_DEVICE
    /\ AppPool \in rt.found
    /\ handle.umpire_pool_name[hypre_MEMORY_DEVICE] = AppPool
    /\ last.trace = <<"umpire_allocator_allocate">>
    /\ last.ret # NULL /\ heap[last.ret].via = AppPool
    /\ MadePools = {}
    /\ handle.own_umpire_pool[hypre_MEMORY_DEVICE] = 0

\* C18 as stated: once hypre_UmpireFinalize has run, after any sequence of
\* hypre_UmpireInit, pool-name changes, allocations, frees and earlier
\* hypre_UmpireFinalize calls, every pool this layer made has been released
\* exactly once: none twice, none not at all.
C18_OwnedReleasedOnce ==
    rt.step = "finalized" => \A n \in MadePools : rt.released[n] = 1

\* one hypre_UmpireFinalize has returned and a pool this layer made was
\* never released
C18_OwnedPoolLeftUnreleased ==
    /\ rt.step = "finalized" /\ rt.finalized = 1 /\ alive
    /\ rt.found = {}
    /\ handle.umpire_pool_name[hypre_MEMORY_DEVICE] \in rm
    /\ DefaultPoolName[hypre_MEMORY_DEVICE] \in MadePools
    /\ rt.released[DefaultPoolName[hypre_MEMORY_DEVICE]] = 0
    /\ handle.own_umpire_pool[hypre_MEMORY_DEVICE] = 1

\* C19 as stated: a registered pool this layer did not make is never
\* released by hypre_UmpireFinalize, whatever was configured and allocated
\* before.
C19_SharedNeverReleased ==
    \A n \in PoolNames : (n \in rm /\ n \notin MadePools) => rt.released[n] = 0

\* the application's pool, found by name and allocated from, was released by
\* hypre_UmpireFinalize, and the pool this layer made was not
C19_SharedPoolReleased ==
    /\ AppPool \in rt.found /\ AppPool \notin MadePools
    /\ rt.released[AppPool] = 1 /\ rt.finalized = 1
    /\ \E a \in Addrs : heap[a].live /\ heap[a].via = AppPool
    /\ MadePools = {DefaultPoolName[hypre_MEMORY_DEVICE]}
    /\ rt.released[DefaultPoolName[hypre_MEMORY_DEVICE]] = 0


\* C20 as stated: a copy of size > 0 between two distinct non-null pointers
\* with a destination or source location that is none of the four raises the
\* wrong-location condition and moves nothing, whatever the other location.
C20_UnknownLocationIsFatal ==
    ( /\ last.op = "Memcpy" /\ last.size > 0
      /\ last.dst # NULL /\ last.src # NULL /\ last.dst # last.src
      /\ hypre_MEMORY_UNDEFINED \in {last.loc_dst, last.loc_src} )
    => /\ Has(last.trace, WrongLocation)
       /\ ~HasAny(last.trace, TransferClasses)

\* the destination's location is none of the four, the source's is the host:
\* memcpy ran, the bytes arrived, no diagnostic, the process runs on
C20_UnknownLocationCopied ==
    /\ last.op = "Memcpy" /\ last.size > 0
    /\ last.dst # NULL /\ last.src # NULL /\ last.dst # last.src
    /\ last.loc_dst = hypre_MEMORY_UNDEFINED /\ last.loc_src = hypre_MEMORY_HOST
    /\ last.trace = <<LocalCopy>>
    /\ \A i \in 1..last.size : heap[last.dst].bytes[i] = heap[last.src].bytes[i]
    /\ alive

(***************************************************************************)
(* hypre_Memset and hypre_MemPrefetch.  hypre_Memset tests num and ptr,    *)
(* checks the asserted location and switches on it; hypre_MemPrefetch      *)
(* hands the pointer to hypre_UnifiedMemPrefetch, which tests the size,    *)
(* checks that the pointer is unified memory and prefetches to the device  *)
(* or to the host.  A fill or a prefetch of memory the primitive cannot    *)
(* take is undefined behaviour.                                            *)
(***************************************************************************)
MemsetResult(ret, trace, term, bytes) ==
    [ ret |-> ret, trace |-> trace, term |-> term, bytes |-> bytes ]

\* one of hypre_HostMemset, hypre_DeviceMemset, hypre_UnifiedMemset on ptr
Memset_fill(h, ptr, event, bytes, defined, ub) ==
    IF event = <<>>
    THEN MemsetResult(ptr, <<>>, FALSE, h[ptr].bytes)
    ELSE IF defined
    THEN MemsetResult(ptr, event, FALSE, bytes)
    ELSE IF ub = "fault"
    THEN MemsetResult(ptr,
                      event \o <<IF event = <<"memset">> THEN "SIGSEGV"
                                 ELSE "HYPRE_CUDA_CALL">>,
                      TRUE, h[ptr].bytes)
    ELSE MemsetResult(ptr, event, FALSE, h[ptr].bytes)

\* the location check and the switch on the location
Memset_switch(h, ptr, value, num, location, ub) ==
    LET actual == hypre_GetActualMemLocation(location)
        w == hypre_WrongMemoryLocation
    IN  IF hypre_CheckMemoryLocation(h, ptr, actual)
        THEN MemsetResult(ptr, <<"hypre_CheckMemoryLocation", "assert">>, TRUE,
                          h[ptr].bytes)
        ELSE CASE actual \in {hypre_MEMORY_HOST, hypre_MEMORY_HOST_PINNED} ->
                    Memset_fill(h, ptr, <<"memset">>,
                                hypre_HostMemset(h[ptr].bytes, value, num),
                                HostAccessible(h[ptr].loc), ub)
               [] actual = hypre_MEMORY_DEVICE ->
                    Memset_fill(h, ptr, DeviceMemsetTrace,
                                hypre_DeviceMemset(h[ptr].bytes, value, num),
                                DeviceAccessible(h[ptr].loc), ub)
               [] actual = hypre_MEMORY_UNIFIED ->
                    Memset_fill(h, ptr, DeviceMemsetTrace,
                                hypre_UnifiedMemset(h[ptr].bytes, value, num),
                                DeviceAccessible(h[ptr].loc), ub)
               [] OTHER -> MemsetResult(ptr, w.trace, w.term, h[ptr].bytes)

\* hypre_Memset without its test of num
Memset_any_num(h, ptr, value, num, location, ub) ==
    IF ptr = NULL
    THEN MemsetResult(ptr, <<"hypre_Memset warning">>, FALSE, <<>>)
    ELSE Memset_switch(h, ptr, value, num, location, ub)

hypre_Memset(h, ptr, value, num, location, ub) ==
    IF num = 0
    THEN MemsetResult(ptr, <<>>, FALSE, BlockAt(h, ptr).bytes)
    ELSE IF ptr = NULL
    THEN MemsetResult(ptr, <<"hypre_Memset warning">>, FALSE, <<>>)
    ELSE Memset_switch(h, ptr, value, num, location, ub)

PrefetchResult(trace, term) == [ trace |-> trace, term |-> term ]

\* hypre_UnifiedMemPrefetch with its check against the location the caller
\* passes
MemPrefetch_checks_argument(h, ptr, size, location, ub) ==
    LET actual == hypre_GetActualMemLocation(location)
        t == hypre_UnifiedMemPrefetch(size, actual)
    IN  IF size = 0
        THEN PrefetchResult(<<>>, FALSE)
        ELSE IF hypre_CheckMemoryLocation(h, ptr, actual)
        THEN PrefetchResult(<<"hypre_CheckMemoryLocation", "assert">>, TRUE)
        ELSE IF t = <<>> \/ BlockAt(h, ptr).loc = hypre_MEMORY_UNIFIED
        THEN PrefetchResult(t, FALSE)
        ELSE IF ub = "fault"
        THEN PrefetchResult(t \o <<"HYPRE_CUDA_CALL">>, TRUE)
        ELSE PrefetchResult(t, FALSE)

\* hypre_MemPrefetch(ptr, size, location), hypre_UnifiedMemPrefetch included
hypre_MemPrefetch(h, ptr, size, location, ub) ==
    LET actual == hypre_GetActualMemLocation(location)
        t == hypre_UnifiedMemPrefetch(size, actual)
    IN  IF size = 0
        THEN PrefetchResult(<<>>, FALSE)
        ELSE IF hypre_CheckMemoryLocation(h, ptr, hypre_MEMORY_UNIFIED)
        THEN PrefetchResult(<<"hypre_CheckMemoryLocation", "assert">>, TRUE)
        ELSE IF t = <<>> \/ BlockAt(h, ptr).loc = hypre_MEMORY_UNIFIED
        THEN PrefetchResult(t, FALSE)
        ELSE IF ub = "fault"
        THEN PrefetchResult(t \o <<"HYPRE_CUDA_CALL">>, TRUE)
        ELSE PrefetchResult(t, FALSE)

\* hypre_Memset(ptr, value, num, location): ptr is NULL or a buffer of at
\* least num bytes
Memset(ptr, value, num, location, rec) ==
    /\ Running
    /\ ptr # NULL => (heap[ptr].live /\ num <= Len(heap[ptr].bytes))
    /\ \E ub \in UBOutcomes :
         \E r \in { hypre_Memset(heap, ptr, value, num, location, ub) } :
             /\ heap' = IF ptr # NULL
                        THEN [ heap EXCEPT ![ptr].bytes = r.bytes ]
                        ELSE heap
             /\ alive' = ~r.term
             /\ last' = Record(rec,
                          [ op |-> "Memset", ptr |-> ptr, value |-> value, size |-> num,
                            location |-> location, old |-> BlockAt(heap, ptr),
                            ret |-> r.ret, trace |-> r.trace, term |-> r.term ])
    /\ UNCHANGED <<build, handle, rm, rt>>

\* hypre_MemPrefetch(ptr, size, location): ptr is NULL or a buffer of at least
\* size bytes
MemPrefetch(ptr, size, location, rec) ==
    /\ Running
    /\ ptr # NULL => (heap[ptr].live /\ size <= Len(heap[ptr].bytes))
    /\ \E ub \in UBOutcomes :
         \E r \in { hypre_MemPrefetch(heap, ptr, size, location, ub) } :
             /\ alive' = ~r.term
             /\ last' = Record(rec,
                          [ op |-> "MemPrefetch", ptr |-> ptr, size |-> size,
                            location |-> location, old |-> BlockAt(heap, ptr),
                            trace |-> r.trace, term |-> r.term ])
    /\ UNCHANGED <<build, handle, rm, heap, rt>>

(***************************************************************************)
(* SpecAccess: two buffers as in SpecCopy, in a build without Umpire (with *)
(* or without accelerator, debugging, unified memory as the device         *)
(* memory); they are freed, copied, filled and prefetched with any         *)
(* pointers (NULL included), sizes and asserted locations.                 *)
(***************************************************************************)
AccessBuilds ==
    { b \in Builds : ~b.HYPRE_USING_UMPIRE_HOST /\ ~b.HYPRE_USING_UMPIRE_DEVICE }

\* 427 is 171 as an unsigned char
MemsetValues == {0, 427}

InitAccess ==
    /\ build \in AccessBuilds
    /\ handle = hypre_UmpireInit(HYPRE_EXEC_DEVICE)
    /\ rm = {}
    /\ heap \in [ DOMAIN CopyBuffers -> Buffers ]
    /\ alive = TRUE
    /\ last = NoCall
    /\ rt = NoTrip

NextAccess ==
    \/ /\ Running
       /\ \E ptr \in {NULL} \cup DOMAIN CopyBuffers, location \in LocationValues,
             rec \in BOOLEAN :
             Free(ptr, location, rec)
    \/ /\ Running
       /\ \E dst \in {NULL} \cup DOMAIN CopyBuffers, src \in {NULL} \cup DOMAIN CopyBuffers,
             size \in Sizes, loc_dst \in LocationValues, loc_src \in LocationValues,
             rec \in BOOLEAN :
             Memcpy(dst, src, size, loc_dst, loc_src, rec)
    \/ /\ Running
       /\ \E ptr \in {NULL} \cup DOMAIN CopyBuffers, value \in MemsetValues,
             num \in Sizes, location \in ConceptualLocations, rec \in BOOLEAN :
             Memset(ptr, value, num, location, rec)
    \/ /\ Running
       /\ \E ptr \in {NULL} \cup DOMAIN CopyBuffers, size \in Sizes,
             location \in ConceptualLocations, rec \in BOOLEAN :
             MemPrefetch(ptr, size, location, rec)

SpecAccess == InitAccess /\ [][NextAccess]_vars

(***************************************************************************)
(* Properties of the location check, over the recorded call.               *)
(***************************************************************************)
CheckedCalls == {"Free", "Memcpy", "Memset", "MemPrefetch"}

LocationCheckFailure == <<"hypre_CheckMemoryLocation", "assert">>

\* the pairs <<location of the block, location it is compared with>> of the
\* recorded call's non-null pointers that get as far as the check;
\* prefetch_location is what a prefetched pointer is compared with
LocationChecks(prefetch_location) ==
    CASE last.op = "Free" ->
            IF last.ptr # NULL THEN { <<last.old.loc, last.location>> } ELSE {}
      [] last.op = "Memcpy" ->
            IF /\ last.size > 0 /\ last.dst # NULL /\ last.src # NULL
               /\ last.dst # last.src
            THEN { <<heap[last.dst].loc, last.loc_dst>>,
                   <<heap[last.src].loc, last.loc_src>> }
            ELSE {}
      [] last.op = "Memset" ->
            IF last.size > 0 /\ last.ptr # NULL
            THEN { <<last.old.loc, hypre_GetActualMemLocation(last.location)>> }
            ELSE {}
      [] last.op = "MemPrefetch" ->
            IF last.size > 0 /\ last.ptr # NULL
            THEN { <<last.old.loc, prefetch_location>> }
            ELSE {}

\* in a debug accelerator build a mismatch ends the process in the check,
\* before anything else, and nothing else brings the check into the trace
CheckedBeforeDispatch(prefetch_location) ==
    (build.HYPRE_DEBUG /\ build.HYPRE_USING_GPU /\ last.op \in CheckedCalls) =>
        IF \E p \in LocationChecks(prefetch_location) : p[1] # p[2]
        THEN last.term /\ last.trace = LocationCheckFailure
        ELSE ~Has(last.trace, "hypre_CheckMemoryLocation")

\* C21 as stated: in a debug accelerator build, free, copy, memset and
\* prefetch of a non-null pointer compare the location the caller passes with
\* the pointer's location before any backend primitive, a mismatch ends the
\* process with no primitive run, and a NULL pointer is never checked.
C21_CallerLocationChecked ==
    ( /\ build.HYPRE_DEBUG /\ build.HYPRE_USING_GPU /\ last.op \in CheckedCalls
      /\ \E p \in LocationChecks(hypre_GetActualMemLocation(last.location)) :
             p[1] # p[2] ) =>
        (last.term /\ last.trace = LocationCheckFailure)

\* C21, amended: the same, where a prefetched pointer is compared with
\* hypre_MEMORY_UNIFIED whatever location the caller passes (the location of
\* a prefetch is its target), and the comparison is made for a free of a
\* non-null pointer, a copy of non-zero size between two distinct non-null
\* pointers, a memset of non-zero num and a prefetch of non-zero size.
C21_LocationCheckedBeforeDispatch ==
    CheckedBeforeDispatch(hypre_MEMORY_UNIFIED)

\* a prefetch to the device of a device block: the caller's location is the
\* block's, and the check against unified memory ends the process
C21_Witness ==
    /\ build.HYPRE_DEBUG /\ build.HYPRE_USING_GPU
    /\ last.op = "MemPrefetch"
    /\ last.size > 0
    /\ last.old.loc = hypre_MEMORY_DEVICE
    /\ hypre_GetActualMemLocation(last.location) = hypre_MEMORY_DEVICE
    /\ last.term
    /\ last.trace = LocationCheckFailure

(***************************************************************************)
(* hypre_GetPointerLocation with the runtime's answer.  The CUDA code has  *)
(* three versions, selected by CUDART_VERSION; the query                   *)
(* cudaPointerGetAttributes answers an error code and, on success, the     *)
(* attributes of the pointer.  After an error the attributes were not      *)
(* written: reading them is reading an uninitialized value.                *)
(***************************************************************************)
CudartLegacy == "CUDART_VERSION < 10000"
Cudart10 == "10000 <= CUDART_VERSION < 11000"
Cudart11 == "CUDART_VERSION >= 11000"

CudartVersions == {CudartLegacy, Cudart10, Cudart11}

cudaSuccess == "cudaSuccess"
cudaErrorInvalidValue == "cudaErrorInvalidValue"
cudaErrorOther == "cudaErrorInitializationError"

QueryErrors == {cudaErrorInvalidValue, cudaErrorOther}

cudaMemoryTypeUnregistered == "cudaMemoryTypeUnregistered"
cudaMemoryTypeHost == "cudaMemoryTypeHost"
cudaMemoryTypeDevice == "cudaMemoryTypeDevice"
cudaMemoryTypeManaged == "cudaMemoryTypeManaged"
Indeterminate == "indeterminate"

\* the attributes the runtime writes for memory of a location: the type, and
\* before CUDA 10 the memoryType and the isManaged flag
AttributesOf(location) ==
    CASE location = hypre_MEMORY_HOST_PINNED ->
            [ type |-> cudaMemoryTypeHost, isManaged |-> FALSE ]
      [] location = hypre_MEMORY_DEVICE ->
            [ type |-> cudaMemoryTypeDevice, isManaged |-> FALSE ]
      [] location = hypre_MEMORY_UNIFIED ->
            [ type |-> cudaMemoryTypeManaged, isManaged |-> TRUE ]
      [] OTHER -> [ type |-> cudaMemoryTypeUnregistered, isManaged |-> FALSE ]

\* what an uninitialized struct cudaPointerAttributes can hold
UninitializedAttributes ==
    [ type : { cudaMemoryTypeUnregistered, cudaMemoryTypeHost, cudaMemoryTypeDevice,
               cudaMemoryTypeManaged, Indeterminate },
      isManaged : BOOLEAN ]

\* the answers of cudaPointerGetAttributes for a pointer into memory of a
\* location: success with its attributes, or an error that leaves attr as
\* it was; a pointer the runtime does not know is an error before CUDA 11
QueryResponses(cudart, location) ==
    { [ err |-> e, attr |-> a ] : e \in QueryErrors, a \in UninitializedAttributes }
    \cup (IF location = hypre_MEMORY_HOST /\ cudart # Cudart11
          THEN {}
          ELSE { [ err |-> cudaSuccess, attr |-> AttributesOf(location) ] })

LocationResult(memory_location, ierr, trace, term) ==
    [ memory_location |-> memory_location, ierr |-> ierr, trace |-> trace,
      term |-> term ]

\* the tests of attr.type of the versions from CUDA 10 on
LocationOfType(type) ==
    CASE type = cudaMemoryTypeUnregistered -> hypre_MEMORY_HOST
      [] type = cudaMemoryTypeHost -> hypre_MEMORY_HOST_PINNED
      [] type = cudaMemoryTypeDevice -> hypre_MEMORY_DEVICE
      [] type = cudaMemoryTypeManaged -> hypre_MEMORY_UNIFIED
      [] OTHER -> hypre_MEMORY_UNDEFINED

\* hypre_GetPointerLocation(ptr, &memory_location) given the answer q of the
\* runtime: the location stored and the value returned
GetPointerLocation_answer(cudart, q) ==
    IF ~build.HYPRE_USING_GPU
    THEN LocationResult(hypre_MEMORY_HOST, 0, <<>>, FALSE)
    ELSE CASE cudart = Cudart11 ->
                 IF q.err # cudaSuccess
                 THEN LocationResult(hypre_MEMORY_UNDEFINED, 0,
                          <<"cudaPointerGetAttributes", "HYPRE_CUDA_CALL">>, TRUE)
                 ELSE LocationResult(LocationOfType(q.attr.type), 0,
                          <<"cudaPointerGetAttributes">>, FALSE)
           [] cudart = Cudart10 ->
                 LocationResult(LocationOfType(q.attr.type),
                                IF q.err # cudaSuccess THEN 1 ELSE 0,
                                <<"cudaPointerGetAttributes">>, FALSE)
           [] cudart = CudartLegacy ->
                 IF q.err # cudaSuccess
                 THEN LocationResult(IF q.err = cudaErrorInvalidValue
                                     THEN hypre_MEMORY_HOST
                                     ELSE hypre_MEMORY_UNDEFINED,
                                     1, <<"cudaPointerGetAttributes">>, FALSE)
                 ELSE IF q.attr.isManaged
                 THEN LocationResult(hypre_MEMORY_UNIFIED, 0,
                          <<"cudaPointerGetAttributes">>, FALSE)
                 ELSE LocationResult(
                          CASE q.attr.type = cudaMemoryTypeDevice -> hypre_MEMORY_DEVICE
                            [] q.attr.type = cudaMemoryTypeHost -> hypre_MEMORY_HOST_PINNED
                            [] OTHER -> hypre_MEMORY_UNDEFINED,
                          0, <<"cudaPointerGetAttributes">>, FALSE)

\* hypre_GetPointerLocation(ptr, &memory_location): ptr is NULL or a buffer
GetPointerLocation(ptr) ==
    /\ Running
    /\ ptr # NULL => heap[ptr].live
    /\ \E q \in QueryResponses(rt.cudart,
                               IF ptr = NULL THEN hypre_MEMORY_HOST ELSE heap[ptr].loc) :
         \E r \in { GetPointerLocation_answer(rt.cudart, q) } :
             /\ alive' = ~r.term
             /\ last' = [ op |-> "GetPointerLocation", ptr |-> ptr,
                          old |-> BlockAt(heap, ptr), err |-> q.err,
                          memory_location |-> r.memory_location, ierr |-> r.ierr,
                          trace |-> r.trace, term |-> r.term ]
    /\ UNCHANGED <<build, handle, rm, heap, rt>>

(***************************************************************************)
(* SpecLocate: two buffers as in SpecCopy, a build of SpecAccess compiled  *)
(* against one of the CUDA runtime versions; the location of a pointer is  *)
(* queried.                                                                *)
(***************************************************************************)
InitLocate ==
    /\ build \in AccessBuilds
    /\ handle = hypre_UmpireInit(HYPRE_EXEC_DEVICE)
    /\ rm = {}
    /\ heap \in [ DOMAIN CopyBuffers -> Buffers ]
    /\ alive = TRUE
    /\ last = NoCall
    /\ \E cudart \in CudartVersions : rt = [ step |-> "locate", cudart |-> cudart ]

NextLocate ==
    \E ptr \in {NULL} \cup DOMAIN CopyBuffers : GetPointerLocation(ptr)

SpecLocate == InitLocate /\ [][NextLocate]_vars

\* C22 as stated: hypre_GetPointerLocation yields one of host, pinned host,
\* device and unified memory for every pointer and every answer of the
\* runtime, never the undefined location: every pointer is host memory in a
\* build without accelerator, and an answer of pointer-not-recognized or a
\* query error is classified as host memory, neither left undefined nor
\* propagated as an error.
C22_LocateNeverUndefined ==
    last.op = "GetPointerLocation" =>
        /\ ~last.term
        /\ last.memory_location \in MemoryLocations
        /\ ~build.HYPRE_USING_GPU => last.memory_location = hypre_MEMORY_HOST
        /\ (build.HYPRE_USING_GPU /\ last.err # cudaSuccess) =>
              (last.memory_location = hypre_MEMORY_HOST /\ last.ierr = 0)

\* before CUDA 10, a query error other than cudaErrorInvalidValue leaves the
\* location undefined and is returned as an error to a caller that goes on
C22_ErrorLeavesUndefined ==
    /\ build.HYPRE_USING_GPU
    /\ rt.cudart = CudartLegacy
    /\ last.op = "GetPointerLocation"
    /\ last.err = cudaErrorOther
    /\ last.memory_location = hypre_MEMORY_UNDEFINED
    /\ last.ierr = 1
    /\ ~last.term

(***************************************************************************)
(* The pool-name setters observed.  The four names are arrays of           *)
(* HYPRE_UMPIRE_POOL_NAME_MAX_LEN characters of the handle, declared in a  *)
(* header in the order device, unified, host, pinned; the length is 1024   *)
(* there and scaled down here.  strcpy writes the characters of the name   *)
(* and a terminator: for a name of the maximal length the terminator is    *)
(* written behind the array, which is undefined behaviour; it ends the     *)
(* process (a checked strcpy) or lands in the first character of the name  *)
(* that follows, which then reads as the empty name.                       *)
(***************************************************************************)
HYPRE_UMPIRE_POOL_NAME_MAX_LEN == 20

MaxLenPoolName == "A_POOL_NAME_OF_MAX_L"

SetterNames == {AppPool, MaxLenPoolName, LongPoolName}

NameArrayOrder ==
    <<hypre_MEMORY_DEVICE, hypre_MEMORY_UNIFIED, hypre_MEMORY_HOST,
      hypre_MEMORY_HOST_PINNED>>

OverflowOutcomes == {"fault", "overwrite"}

SetNameResult(names, trace, term) ==
    [ names |-> names, trace |-> trace, term |-> term ]

\* strcpy(name array of the location, pool_name)
strcpy(names, location, pool_name, ub) ==
    IF Len(pool_name) < HYPRE_UMPIRE_POOL_NAME_MAX_LEN
    THEN SetNameResult([ names EXCEPT ![location] = pool_name ], <<"strcpy">>, FALSE)
    ELSE IF ub = "fault"
    THEN SetNameResult(names, <<"strcpy", "SIGABRT">>, TRUE)
    ELSE SetNameResult(
             [ l \in MemoryLocations |->
                 IF l = location THEN pool_name
                 ELSE IF \E i \in 1..3 : /\ NameArrayOrder[i] = location
                                         /\ NameArrayOrder[i + 1] = l
                 THEN ""
                 ELSE names[l] ],
             <<"strcpy">>, FALSE)

\* the body of HYPRE_SetUmpireDevicePoolName and its three twins
SetUmpirePoolName_core(names, location, pool_name, ub) ==
    IF Len(pool_name) > HYPRE_UMPIRE_POOL_NAME_MAX_LEN
    THEN SetNameResult(names, <<"hypre_error_in_arg">>, FALSE)
    ELSE strcpy(names, location, pool_name, ub)

\* HYPRE_SetUmpire{Device,UM,Host,Pinned}PoolName(pool_name), recorded
SetUmpirePoolName(location, pool_name, rec) ==
    /\ Running
    /\ \E ub \in OverflowOutcomes :
         \E r \in { SetUmpirePoolName_core(handle.umpire_pool_name, location,
                                           pool_name, ub) } :
             /\ handle' = [ handle EXCEPT !.umpire_pool_name = r.names ]
             /\ alive' = ~r.term
             /\ last' = Record(rec,
                          [ op |-> "SetUmpirePoolName", location |-> location,
                            pool_name |-> pool_name,
                            old |-> handle.umpire_pool_name,
                            trace |-> r.trace, term |-> r.term ])
    /\ UNCHANGED <<build, rm, heap, rt>>

(***************************************************************************)
(* SpecPoolName: a build with Umpire, the handle after hypre_UmpireInit;   *)
(* the names are set, in any order, to a short name, a name of the maximal *)
(* length and a longer one.                                                *)
(***************************************************************************)
PoolNameBuilds ==
    { b \in Builds : b.HYPRE_USING_UMPIRE_HOST \/ b.HYPRE_USING_UMPIRE_DEVICE }

InitPoolName ==
    /\ build \in PoolNameBuilds
    /\ handle = hypre_UmpireInit(HYPRE_EXEC_DEVICE)
    /\ rm = {}
    /\ heap = [ a \in Addrs |-> NoBlock ]
    /\ alive = TRUE
    /\ last = NoCall
    /\ rt = NoTrip

NextPoolName ==
    \E location \in MemoryLocations, pool_name \in SetterNames, rec \in BOOLEAN :
        SetUmpirePoolName(location, pool_name, rec)

SpecPoolName == InitPoolName /\ [][NextPoolName]_vars

C24_MemsetNoOp ==
    (last.op = "Memset" /\ (last.size = 0 \/ last.ptr = NULL)) =>
        /\ last.ret = last.ptr
        /\ ~last.term
        /\ last.trace = IF last.size = 0 THEN <<>> ELSE <<"hypre_Memset warning">>
        /\ last.ptr # NULL => heap[last.ptr] = last.old

\* a memset of no bytes in a debug accelerator build, of a block that is not
\* at the location passed and holds a byte other than the value
C24_Witness ==
    /\ build.HYPRE_DEBUG /\ build.HYPRE_USING_GPU
    /\ last.op = "Memset"
    /\ last.size = 0
    /\ last.ptr # NULL
    /\ last.old.loc # hypre_GetActualMemLocation(last.location)
    /\ \E i \in 1..Len(last.old.bytes) : last.old.bytes[i] # last.value % 256
    /\ last.ret = last.ptr
    /\ last.trace = <<>>

(***************************************************************************)
(* More properties of the policy resolver (SpecPolicy).                    *)
(***************************************************************************)
NoDevice == {hypre_MEMORY_HOST, hypre_MEMORY_HOST_PINNED, hypre_MEMORY_UNIFIED}

\* what C25 states of a pair without the device location
Policy2NoDevice(unified_pair_applies) ==
    ( /\ last.op = "GetExecPolicy2"
      /\ last.location1 \in NoDevice /\ last.location2 \in NoDevice ) =>
        /\ hypre_GetExecPolicy2_core(last.location2, last.location1).exec = last.exec
        /\ hypre_GetExecPolicy2_core(last.location2, last.location1).term = last.term
        /\ (last.location1 \in HostSide \/ last.location2 \in HostSide) =>
              (last.ret = HYPRE_EXEC_HOST /\ last.trace = <<>>)
        /\ ( /\ last.location1 = hypre_MEMORY_UNIFIED
             /\ last.location2 = hypre_MEMORY_UNIFIED
             /\ unified_pair_applies ) =>
              (last.ret = handle.default_exec_policy /\ last.trace = <<>>)

C26_Policy2NeverReturnsUndefined ==
    last.op = "GetExecPolicy2" =>
        /\ last.exec = HYPRE_EXEC_UNDEFINED => last.term
        /\ ~last.term => last.ret \in {HYPRE_EXEC_HOST, HYPRE_EXEC_DEVICE}

\* a build without debugging and without accelerator: the pair (unified,
\* unified) returns the undefined policy
C26_UndefinedReturned ==
    /\ last.op = "GetExecPolicy2"
    /\ ~build.HYPRE_DEBUG
    /\ last.location1 = hypre_MEMORY_UNIFIED
    /\ last.location2 = hypre_MEMORY_UNIFIED
    /\ ~last.term
    /\ last.trace = <<>>
    /\ last.ret = HYPRE_EXEC_UNDEFINED

\* C27 as stated: in hypre_ReAlloc and hypre_ReAlloc_v2, when the allocation
\* or the realloc for a non-zero size yields NULL the process is ended where
\* this is detected: a call with a non-zero new size never returns NULL.
C27_ReAllocNeverReturnsNull ==
    (last.op \in ReAllocCalls /\ last.size # 0) =>
        (last.term \/ last.ret # NULL)

\* a build without debugging: realloc of a host block answers NULL,
\* hypre_OutOfMemory reports it, and hypre_ReAlloc returns NULL; the old
\* block is still there
C27_NullReturned ==
    /\ ~build.HYPRE_DEBUG
    /\ last.op = "ReAlloc"
    /\ last.size # 0
    /\ last.ptr # NULL
    /\ last.old.loc = hypre_MEMORY_HOST
    /\ last.resp = NULL
    /\ Has(last.trace, "hypre_OutOfMemory")
    /\ ~last.term
    /\ last.ret = NULL
    /\ heap[last.ptr] = last.old

(***************************************************************************)
(* Lazy creation of the device pool by two threads.  The handle is one     *)
(* object shared by the threads of the process, and neither                *)
(* hypre_CachingMallocDevice nor hypre_umpire_device_pooled_allocate takes *)
(* a lock: the test of the handle (or of the registry), the creation and   *)
(* the allocation are steps that interleave.  rt holds the pool option the *)
(* build was compiled with (HYPRE_USING_DEVICE_POOL, the caching           *)
(* allocator, or Umpire), each thread's position (pc), the handle's        *)
(* caching allocator (cub, 0 for NULL), the allocators created by this     *)
(* layer and the allocator that served each thread.  Umpire refuses to     *)
(* make a second allocator of a registered name: the error ends the        *)
(* process.                                                                *)
(***************************************************************************)
Threads == {1, 2}

InitThreads ==
    /\ build \in { b \in Builds : b.HYPRE_USING_GPU /\ ~b.HYPRE_USING_UNIFIED_MEMORY }
    /\ handle = hypre_UmpireInit(HYPRE_EXEC_DEVICE)
    /\ rm = {}
    /\ heap = [ a \in Addrs |-> NoBlock ]
    /\ alive = TRUE
    /\ last = NoCall
    /\ rt = [ step |-> "threads",
              pool |-> IF build.HYPRE_USING_UMPIRE_DEVICE THEN "umpire" ELSE "cub",
              pc |-> [ t \in Threads |-> "call" ],
              cub |-> 0,
              created |-> {},
              served |-> [ t \in Threads |-> 0 ] ]

\* hypre_CachingMallocDevice: if (!hypre_HandleCubDevAllocator(hypre_handle()))
CachingMallocDevice_test(t) ==
    /\ alive /\ rt.pool = "cub" /\ rt.pc[t] = "call"
    /\ rt' = [ rt EXCEPT !.pc[t] = IF rt.cub = 0 THEN "create" ELSE "allocate" ]
    /\ UNCHANGED <<build, handle, rm, heap, alive, last>>

\* hypre_HandleCubDevAllocator(hypre_handle()) =
\*    hypre_DeviceDataCubCachingAllocatorCreate(...)
CachingMallocDevice_create(t) ==
    /\ alive /\ rt.pool = "cub" /\ rt.pc[t] = "create"
    /\ rt' = [ rt EXCEPT !.pc[t] = "allocate",
                         !.cub = Cardinality(rt.created) + 1,
                         !.created = @ \cup { Cardinality(rt.created) + 1 } ]
    /\ UNCHANGED <<build, handle, rm, heap, alive, last>>

\* hypre_HandleCubDevAllocator(hypre_handle()) -> DeviceAllocate(ptr, nbytes)
CachingMallocDevice_allocate(t) ==
    /\ alive /\ rt.pool = "cub" /\ rt.pc[t] = "allocate"
    /\ rt' = [ rt EXCEPT !.pc[t] = "done", !.served[t] = rt.cub ]
    /\ UNCHANGED <<build, handle, rm, heap, alive, last>>

\* hypre_umpire_device_pooled_allocate:
\* if ( umpire_resourcemanager_is_allocator_name(rm_ptr, pool_name) )
umpire_device_pooled_allocate_test(t) ==
    /\ alive /\ rt.pool = "umpire" /\ rt.pc[t] = "call"
    /\ rt' = [ rt EXCEPT !.pc[t] =
                  IF handle.umpire_pool_name[hypre_MEMORY_DEVICE] \in rm
                  THEN "allocate" ELSE "create" ]
    /\ UNCHANGED <<build, handle, rm, heap, alive, last>>

\* hypre_umpire_resourcemanager_make_allocator_pool(rm_ptr, pool_name, ...);
\* hypre_HandleOwnUmpireDevicePool(handle) = 1
umpire_device_pooled_allocate_make(t) ==
    /\ alive /\ rt.pool = "umpire" /\ rt.pc[t] = "create"
    /\ IF handle.umpire_pool_name[hypre_MEMORY_DEVICE] \in rm
       THEN /\ alive' = FALSE
            /\ rt' = [ rt EXCEPT !.pc[t] = "umpire error" ]
            /\ UNCHANGED <<handle, rm>>
       ELSE /\ rm' = rm \cup { handle.umpire_pool_name[hypre_MEMORY_DEVICE] }
            /\ handle' = [ handle EXCEPT !.own_umpire_pool[hypre_MEMORY_DEVICE] = 1 ]
            /\ rt' = [ rt EXCEPT !.pc[t] = "allocate",
                                 !.created = @ \cup { Cardinality(rt.created) + 1 } ]
            /\ UNCHANGED alive
    /\ UNCHANGED <<build, heap, last>>

\* *ptr = umpire_allocator_allocate(&pooled_allocator, nbytes)
umpire_device_pooled_allocate_allocate(t) ==
    /\ alive /\ rt.pool = "umpire" /\ rt.pc[t] = "allocate"
    /\ rt' = [ rt EXCEPT !.pc[t] = "done", !.served[t] = 1 ]
    /\ UNCHANGED <<build, handle, rm, heap, alive, last>>

NextThreads ==
    \E t \in Threads :
        \/ CachingMallocDevice_test(t)
        \/ CachingMallocDevice_create(t)
        \/ CachingMallocDevice_allocate(t)
        \/ umpire_device_pooled_allocate_test(t)
        \/ umpire_device_pooled_allocate_make(t)
        \/ umpire_device_pooled_allocate_allocate(t)

SpecThreads == InitThreads /\ [][NextThreads]_vars

\* C28 as stated: when two threads issue the first pooled allocation of the
\* device location concurrently, under every interleaving at most one pool
\* or caching allocator is created, no created allocator is overwritten and
\* lost.
C28_OnePoolUnderEveryInterleaving ==
    /\ Cardinality(rt.created) <= 1
    /\ rt.pool = "cub" => rt.created \subseteq {rt.cub}

\* both threads found no caching allocator and each created one: the second
\* replaced the first in the handle, and the first thread's block comes from
\* the allocator that was lost
C28_AllocatorOverwritten ==
    /\ rt.pool = "cub"
    /\ \A t \in Threads : rt.pc[t] = "done"
    /\ rt.created = {1, 2}
    /\ rt.cub = 2
    /\ \E t \in Threads : rt.served[t] = 1

\* C29 as stated: over any sequence of pooled allocations, changes of the
\* pool name and pooled frees, a pooled free hands the pointer to the pool
\* that allocated it, never to another, and never runs when no pool of the
\* configured name is registered.
C29_FreedIntoAllocatingPool ==
    ( /\ last.op = "Free" /\ last.ptr # NULL
      /\ last.old.loc = last.location
      /\ Has(last.trace, "umpire_allocator_deallocate") )
    => /\ last.via = last.old.via
       /\ last.via \in rm

\* a device block of the pool HYPRE_DEVICE_POOL, freed after the name was set
\* to that of another registered pool, was deallocated into that pool
C29_FreedIntoOtherPool ==
    /\ last.op = "Free" /\ last.ptr # NULL
    /\ last.location = hypre_MEMORY_DEVICE /\ last.old.loc = hypre_MEMORY_DEVICE
    /\ last.old.via = DefaultPoolName[hypre_MEMORY_DEVICE]
    /\ handle.umpire_pool_name[hypre_MEMORY_DEVICE] = AppPool
    /\ AppPool \in rm
    /\ last.trace = <<"umpire_allocator_deallocate">>
    /\ last.via = AppPool
    /\ ~last.term

(***************************************************************************)
(* hypre_MemoryPrintUsage called by every rank of a communicator.  rt      *)
(* holds, per rank, the log_level passed, the position in the call and the *)
(* collectives entered; heap is rank 0's memory, the only rank that        *)
(* allocates.  A call is split where it can block: at the Gather and at    *)
(* the Barrier.                                                            *)
(***************************************************************************)
MaxRank == 2
Ranks == 0..MaxRank
nprocs == Cardinality(Ranks)
LogLevels == 0..4

\* bit k of a non-negative HYPRE_Int
Bit(x, k) == (x \div Pow2(k)) % 2

\* log_level & 0x3
LowBits(log_level) == Bit(log_level, 0) + 2 * Bit(log_level, 1)

\* !(log_level & 0x3) is false: the call goes on to the collectives
EntersCollectives(log_level) == LowBits(log_level) # 0

\* HYPRE_USING_UMPIRE is defined in every build configured with Umpire
HYPRE_USING_UMPIRE ==
    \/ build.HYPRE_USING_UMPIRE_HOST \/ build.HYPRE_USING_UMPIRE_DEVICE
    \/ build.HYPRE_USING_UMPIRE_UM \/ build.HYPRE_USING_UMPIRE_PINNED

SizeofReal == 8

\* offset and ne after the preprocessor blocks
offset == IF build.HYPRE_USING_GPU THEN 2 ELSE 0
ne == 6 + offset + (IF HYPRE_USING_UMPIRE THEN 8 ELSE 0)

\* number of HYPRE_Real in gmem
GatherLength == ne * nprocs

\* the columns of rank i's row read while printing the local statistics
LocalColumns ==
    {0, 1, 2, 3, 4, 5}
      \cup (IF build.HYPRE_USING_GPU THEN {6, 7} ELSE {})
      \cup (IF HYPRE_USING_UMPIRE THEN {9, 11, 13, 15} ELSE {})

\* the indices gmem[ne * i + k] read by the printing loop over i
LocalReads == { ne * i + k : i \in 0..(nprocs - 1), k \in LocalColumns }

\* a read past the end of gmem is undefined
PrintOutcomes(log_level) ==
    IF Bit(log_level, 0) = 1 /\ \E idx \in LocalReads : idx >= GatherLength
    THEN UBOutcomes
    ELSE {"no_effect"}

\* the Gather returns: on the root once every rank of the communicator has
\* contributed; elsewhere at once, or under a rendezvous implementation
\* once the root has entered
GatherComplete(myid) ==
    IF myid = 0 THEN rt.sent = Ranks
    ELSE rt.sync => 0 \in rt.sent

BarrierComplete == rt.arrived = Ranks

EnterGather(myid, usage) ==
    [ usage EXCEPT !.pc[myid] = "gather",
                   !.sent = @ \cup {myid},
                   !.gathers[myid] = @ + 1 ]

EnterBarrier(myid, usage) ==
    [ usage EXCEPT !.pc[myid] = "barrier",
                   !.arrived = @ \cup {myid},
                   !.barriers[myid] = @ + 1 ]

\* from the entry to the call of hypre_MPI_Gather
MemoryPrintUsage_call(myid) ==
    /\ alive
    /\ rt.pc[myid] = "call"
    /\ IF ~EntersCollectives(rt.log_level[myid])
       THEN /\ rt' = [ rt EXCEPT !.pc[myid] = "returned" ]
            /\ UNCHANGED <<handle, rm, heap, alive>>
       ELSE IF myid # 0
       THEN /\ rt' = EnterGather(myid, rt)
            /\ UNCHANGED <<handle, rm, heap, alive>>
       ELSE \E size \in { GatherLength * SizeofReal },
               actual \in { hypre_GetActualMemLocation(HYPRE_MEMORY_HOST) } :
            \E resp \in Responses(size), g \in Garbage(size), ub \in UBOutcomes :
            \E r \in { hypre_MAlloc_core(size, 1, actual, resp, g, ub) } :
                /\ handle' = [ handle EXCEPT !.own_umpire_pool = r.own ]
                /\ rm' = r.rm
                /\ heap' = IF r.ptr # NULL
                           THEN [ heap EXCEPT ![r.ptr] = Block(actual, r.bytes, r.via) ]
                           ELSE heap
                /\ alive' = ~r.term
                /\ rt' = IF r.term THEN rt
                         ELSE EnterGather(myid,
                                [ rt EXCEPT !.gmem = r.ptr,
                                            !.allocated = @ \cup {myid} ])
    /\ UNCHANGED <<build, last>>

\* from the return of hypre_MPI_Gather to the call of hypre_MPI_Barrier
MemoryPrintUsage_gathered(myid) ==
    /\ alive
    /\ rt.pc[myid] = "gather"
    /\ GatherComplete(myid)
    /\ IF myid # 0
       THEN rt' = EnterBarrier(myid, rt)
       ELSE \E ub \in PrintOutcomes(rt.log_level[myid]) :
              IF ub = "fault"
              THEN rt' = [ rt EXCEPT !.pc[myid] = "fault" ]
              ELSE rt' = EnterBarrier(myid,
                           [ rt EXCEPT
                               !.computed = IF Bit(rt.log_level[myid], 1) = 1
                                            THEN @ \cup {myid} ELSE @,
                               !.printed = @ \cup {myid} ])
    /\ UNCHANGED <<build, handle, rm, heap, alive, last>>

\* from the return of hypre_MPI_Barrier to the return of the call
MemoryPrintUsage_released(myid) ==
    /\ alive
    /\ rt.pc[myid] = "barrier"
    /\ BarrierComplete
    /\ \E gmem \in { IF myid = 0 THEN rt.gmem ELSE NULL },
          actual \in { hypre_GetActualMemLocation(HYPRE_MEMORY_HOST) } :
       \E r \in { hypre_Free_core(heap, rm, gmem, actual) } :
           /\ heap' = IF gmem # NULL /\ r.via # "none"
                      THEN [ heap EXCEPT ![gmem] = NoBlock ]
                      ELSE heap
           /\ alive' = ~r.term
           /\ rt' = IF r.term THEN rt ELSE [ rt EXCEPT !.pc[myid] = "returned" ]
    /\ UNCHANGED <<build, handle, rm, last>>

InitUsage ==
    /\ build \in Builds
    /\ handle = hypre_UmpireInit(HYPRE_EXEC_DEVICE)
    /\ rm = {}
    /\ heap = [ a \in Addrs |-> NoBlock ]
    /\ alive = TRUE
    /\ last = NoCall
    /\ \E log_level \in [ Ranks -> LogLevels ], sync \in BOOLEAN :
          rt = [ step |-> "usage",
                 sync |-> sync,
                 log_level |-> log_level,
                 pc |-> [ r \in Ranks |-> "call" ],
                 gmem |-> NULL,
                 sent |-> {},
                 arrived |-> {},
                 gathers |-> [ r \in Ranks |-> 0 ],
                 barriers |-> [ r \in Ranks |-> 0 ],
                 allocated |-> {},
                 computed |-> {},
                 printed |-> {} ]

NextUsage ==
    \/ \E myid \in Ranks : MemoryPrintUsage_call(myid)
    \/ \E myid \in Ranks : MemoryPrintUsage_gathered(myid)
    \/ \E myid \in Ranks : MemoryPrintUsage_released(myid)

SpecUsage == InitUsage /\ [][NextUsage]_vars

\* every rank is a running process: a step of its call that stays possible is taken
FairUsage ==
    \A myid \in Ranks :
        /\ WF_vars(MemoryPrintUsage_call(myid))
        /\ WF_vars(MemoryPrintUsage_gathered(myid))
        /\ WF_vars(MemoryPrintUsage_released(myid))

SpecUsageFair == SpecUsage /\ FairUsage

\* the collectives each rank has entered, and who allocated, computed, printed
UsageCollectivesMatch ==
    /\ \A r \in Ranks :
         /\ rt.gathers[r] <= 1
         /\ rt.barriers[r] <= rt.gathers[r]
         /\ ~EntersCollectives(rt.log_level[r]) =>
               rt.gathers[r] = 0 /\ rt.barriers[r] = 0
         /\ (rt.pc[r] = "returned" /\ EntersCollectives(rt.log_level[r])) =>
               rt.gathers[r] = 1 /\ rt.barriers[r] = 1
    /\ rt.allocated \cup rt.computed \cup rt.printed \subseteq {0}

SameLogLevel == \A r, s \in Ranks : rt.log_level[r] = rt.log_level[s]

AllReturned == \A r \in Ranks : rt.pc[r] = "returned"

\* C30 as stated: a rank whose log_level has neither low bit set enters no
\* collective; every other rank enters one Gather and then one Barrier, and
\* only rank 0 allocates, computes and prints; and when all ranks pass the
\* same log_level, every rank's call eventually returns.  A job ended by
\* hypre_MPI_Abort, when rank 0 cannot allocate gmem, is not held against
\* the statement.
C30_CollectivesMatchAndReturn ==
    /\ []UsageCollectivesMatch
    /\ SameLogLevel => <>(AllReturned \/ ~alive)

\* all ranks passed log_level 1; rank 0 read past the end of gmem while
\* printing and faulted; the other ranks are in the Barrier, which rank 0
\* never enters
C30_RootFaultedOthersInBarrier ==
    /\ rt.step = "usage"
    /\ \A r \in Ranks : rt.log_level[r] = 1
    /\ HYPRE_USING_UMPIRE /\ ~build.HYPRE_USING_GPU
    /\ rt.pc[0] = "fault"
    /\ \A r \in Ranks \ {0} : rt.pc[r] = "barrier"
    /\ rt.arrived = Ranks \ {0}
    /\ alive

====
